---- MODULE Spec2Model ----
(***************************************************************************)
(* A model of serve-event-listener: the HTTP caller (_request), the status *)
(* reducer (StatusData), the egress queue (StatusQueue) and the watch loop *)
(* (EventListener.listen).  Each subsystem has its own specification; the  *)
(* variables of the other subsystems stay at their initial values.         *)
(***************************************************************************)
EXTENDS Integers, Sequences, FiniteSets, TLC

VARIABLES
    \* ---- http_client/client.py  _request ----
    rq_pc,        \* "idle" | "loop" | "done"
    rq_cfg,       \* the arguments of the call: schedule length, hook, header
    rq_i,         \* index of the next attempt in backoff_seconds (0-based)
    rq_refreshed, \* the local flag `refreshed`
    rq_header,    \* token in merged_headers["Authorization"], 0 = no header
    rq_tok,       \* number of tokens the token endpoint has issued so far
    rq_sent,      \* history: the Authorization token sent with each attempt
    rq_out,       \* history: what session.request gave for each attempt
    rq_sleeps,    \* history: the schedule positions whose delay was slept
    rq_hooks,     \* history: what each token_fetcher call returned
    rq_result,    \* what the call gave back to its caller
    \* ---- status_data.py  StatusData ----
    sd,           \* status_data: release -> record, NoRec if absent
    sd_client,    \* k8s_api_client is set
    sd_now,       \* the UTC clock get_timestamp_as_str reads
    sd_raised,    \* the last update() call raised
    sd_n,         \* history: number of update() calls so far
    sd_maxSeen,   \* history: greatest creation timestamp processed, per release
    sd_maxSinceDel, \* history: the same, counted from the last event that
                  \* carried a deletion timestamp
    \* ---- status_queue.py  StatusQueue ----
    q,            \* self.queue: the records waiting, head first
    q_cfg,        \* self.prober is set, and APP_PROBE_STATUSES
    q_stop,       \* self.stop_event
    q_now,        \* the clock time.time() / _utcnow() read, in seconds
    q_added,      \* history: number of add() calls so far
    q_posted,     \* history: the records handed to http_post, in order
    \* ---- event_listener.py  EventListener.listen ----
    el_pc,        \* where listen() is: "idle", "loop", "stream" or "done"
    el_setup,     \* self.setup_complete
    el_thread,    \* the thread running StatusQueue.process has been started
    el_rv,        \* self.resource_version
    el_retries,   \* retries
    el_gone,      \* history: a 410 was handled and no stream was opened since
    el_open,      \* history: how the stream now open was opened
    \* ---- probing.py  AppAvailabilityProbe.probe_url ----
    el_seen,      \* history: the version the last pod list or event carried
    el_slept,     \* history: seconds the handler of a 410 slept after it cleared
                  \* the resource version; 0 once the next pod list is made
    pr_pc,        \* where probe_url() is: "idle", "get" or "done"
    pr_in,        \* the URL has a host, and what getaddrinfo does for it
    pr_result,    \* the ProbeResult returned: status and port80_status
    \* ---- event_listener.py  EventListener.setup, fetch_token ----
    su_pc,        \* where setup() is: "idle", "ping", "token" or "done"
    su_n,         \* history: number of setup() calls so far
    su_token,     \* self.token, 0 for None
    su_issued,    \* number of tokens the token endpoint has issued
    su_client,    \* self.client is set
    su_prober,    \* self._prober is set
    su_queue,     \* self._status_queue is set
    su_run,       \* history: what the setup() call in progress has met
    \* ---- status_queue.py  StatusQueue.process, statement by statement ----
    cs_pc,        \* where process() is: "while", "get", "handle", "post",
                  \* "returned" or "raised"
    cs_rec,       \* the record process() holds
    cs_late,      \* history: records taken since stop_processing() was called,
                  \* counted up to 2
    cs_out,       \* history: what http_post gave for each record of q_posted
    cs_token,     \* StatusQueue.token
    cs_eltoken,   \* EventListener.token, which the token_fetcher assigns
    cs_sent,      \* history: the token of the Authorization header the last
                  \* http_post call was given
    cs_owed,      \* history: queue.get() calls that returned a record, less
                  \* the queue.task_done() calls
    \* ---- status_data.py  StatusData.determine_status_from_k8s ----
    ds_in,        \* the pod status handed to determine_status_from_k8s
    ds_out,       \* the triple it returned
    \* ---- the dict objects the reducer and the queue hold ----
    hp_obj,       \* the dicts created so far, by identity (1, 2, ...)
    hp_map,       \* status_data: release -> identity of its dict, 0 if absent
    hp_q,         \* the queue: identities of the records it holds
    hp_n,         \* number of watch events handled
    \* ---- status_queue.py  the NotFound counter of one Deleted record ----
    nx_count,     \* NXDOMAIN_CONFIRMATION_COUNT as read from the environment
    nx_rec,       \* the record, as the passes of process() have left it
    nx_hist,      \* history: what the prober answered, pass by pass
    nx_posted     \* the record has been accepted for the POST

httpVars == <<rq_pc, rq_cfg, rq_i, rq_refreshed, rq_header, rq_tok,
              rq_sent, rq_out, rq_sleeps, rq_hooks, rq_result>>

sdVars == <<sd, sd_client, sd_now, sd_raised, sd_n, sd_maxSeen, sd_maxSinceDel>>

qVars == <<q, q_cfg, q_stop, q_now, q_added, q_posted>>

elVars == <<el_pc, el_setup, el_thread, el_rv, el_retries, el_gone, el_open,
            el_seen, el_slept>>

prVars == <<pr_pc, pr_in, pr_result>>

suVars == <<su_pc, su_n, su_token, su_issued, su_client, su_prober, su_queue, su_run>>

csVars == <<cs_pc, cs_rec, cs_late, cs_out, cs_token, cs_eltoken, cs_sent, cs_owed>>

dsVars == <<ds_in, ds_out>>

hpVars == <<hp_obj, hp_map, hp_q, hp_n>>

nxVars == <<nx_count, nx_rec, nx_hist, nx_posted>>

vars == <<httpVars, sdVars, qVars, elVars, prVars, suVars, csVars, dsVars, hpVars, nxVars>>

-----------------------------------------------------------------------------
(* Bounds of the model *)

MaxBackoff == 3
MaxTs == 2        \* greatest creation / deletion timestamp of a pod
MaxEvents == 3    \* greatest number of watch events reduced in one run
MaxAdds == 2      \* greatest number of records added to the egress queue
MaxTime == 30     \* greatest reading of the egress consumer's clock (seconds)
MaxClock == 1     \* greatest reading of the reducer's clock
MaxSetups == 2    \* greatest number of calls of setup()
MaxContainers == 2 \* greatest number of init / regular container statuses of a pod
MaxConfirm == 2   \* greatest NXDOMAIN_CONFIRMATION_COUNT the environment sets
MaxProbes == 4    \* greatest number of probes of one Deleted record followed
MaxDicts == 2     \* greatest number of watch events whose dicts are followed
MaxRunTime == 240 \* greatest reading of the clock when a Running window is followed

-----------------------------------------------------------------------------
(* http_client/client.py : _request *)

\* Status codes session.request may answer with (one per class the code tests).
Codes == {200, 302, 400, 401, 403, 404, 503}

\* requests.exceptions classes session.request raises; all are RequestException.
TransportErrors == {"ConnectTimeout", "ReadTimeout", "ConnectionError"}

Outcomes == [exc : {"none"}, code : Codes] \cup [exc : TransportErrors, code : {0}]

\* What a token_fetcher call can do: return a fresh non-empty token, return an
\* empty one, raise a RequestException (event_listener.py:388) or raise
\* something else (the KeyError of event_listener.py:409).
HookOutcomes == {"token", "empty", "RequestException", "KeyError"}

Pending == [kind |-> "pending", code |-> 0]
ReturnedNone == [kind |-> "None", code |-> 0]
Raised == [kind |-> "raised", code |-> 0]
Resp(c) == [kind |-> "resp", code |-> c]

\* The token of the Authorization header the caller passed in.
InitialToken == 1

\* `if tok: merged_headers["Authorization"] = ...` (lines 39-40 and 64-65)
HeaderAfterFetch(header, hook, issued) ==
    IF hook = "token" THEN InitialToken + issued + 1 ELSE header

IssuedAfterFetch(hook, issued) == IF hook = "token" THEN issued + 1 ELSE issued

\* the tests of lines 58-61: a 2xx, 400 or 404 response is returned at once
ReturnedAtOnce(code) == (code >= 200 /\ code < 300) \/ code \in {400, 404}

\* the test of line 62
NeedsRefresh(code, fetcher, refreshed) ==
    code \in {401, 403} /\ fetcher /\ ~refreshed

\* a 5xx test that stops retrying one attempt early
RetriesServerErrorButLast(code, i, len) ==
    code >= 500 /\ code < 600 /\ i < len - 2

\* the test of lines 69-71: a 5xx is retried only if another attempt is left
RetriesServerError(code, i, len) ==
    code >= 500 /\ code < 600 /\ i < len - 1

\* a chain of tests that also retries a 400 or 404 while attempts are left
DecideRetryingClientErrors(code, i, len, fetcher, refreshed) ==
    IF code >= 200 /\ code < 300 THEN "return"
    ELSE IF NeedsRefresh(code, fetcher, refreshed) THEN "refresh"
    ELSE IF code >= 400 /\ code < 600 /\ i < len - 1 THEN "retry"
    ELSE "return"

\* lines 58-74: what the loop does with a response, the tests in the order
\* the code makes them
Decide(code, i, len, fetcher, refreshed) ==
    IF ReturnedAtOnce(code) THEN "return"
    ELSE IF NeedsRefresh(code, fetcher, refreshed) THEN "refresh"
    ELSE IF RetriesServerError(code, i, len) THEN "retry"
    ELSE "return"

\* The except clauses of lines 77-86: which exceptions raised inside the try
\* block end the call with None.
CaughtInLoop(exc) == exc \in TransportErrors \cup {"RequestException"}

HttpInit ==
    /\ rq_pc = "idle"
    /\ rq_cfg = [len |-> 0, fetcher |-> FALSE, auth |-> FALSE]
    /\ rq_i = 0
    /\ rq_refreshed = FALSE
    /\ rq_header = 0
    /\ rq_tok = 0
    /\ rq_sent = <<>>
    /\ rq_out = <<>>
    /\ rq_sleeps = <<>>
    /\ rq_hooks = <<>>
    /\ rq_result = Pending

\* Lines 30-43: the call up to the first attempt.
BeginRequest(len, fetcher, auth, hook) ==
    /\ rq_cfg' = [len |-> len, fetcher |-> fetcher, auth |-> auth]
    /\ rq_i' = 0
    /\ rq_refreshed' = FALSE
    /\ rq_sent' = <<>>
    /\ rq_out' = <<>>
    /\ rq_sleeps' = <<>>
    /\ IF len = 0
       THEN \* line 33: raise ValueError
            /\ rq_pc' = "done"
            /\ rq_result' = Raised
            /\ rq_header' = IF auth THEN InitialToken ELSE 0
            /\ UNCHANGED <<rq_tok, rq_hooks>>
       ELSE IF fetcher /\ ~auth
       THEN \* lines 37-40, outside the try block
            /\ rq_hooks' = <<[at |-> "before", got |-> hook,
                              tok |-> HeaderAfterFetch(0, hook, rq_tok)]>>
            /\ rq_tok' = IssuedAfterFetch(hook, rq_tok)
            /\ rq_header' = HeaderAfterFetch(0, hook, rq_tok)
            /\ IF hook \in {"RequestException", "KeyError"}
               THEN rq_pc' = "done" /\ rq_result' = Raised
               ELSE rq_pc' = "loop" /\ rq_result' = Pending
       ELSE /\ rq_pc' = "loop"
            /\ rq_result' = Pending
            /\ rq_header' = IF auth THEN InitialToken ELSE 0
            /\ rq_hooks' = <<>>
            /\ UNCHANGED rq_tok

\* a call of _request on its own
RequestCall(len, fetcher, auth, hook) ==
    /\ rq_pc = "idle"
    /\ BeginRequest(len, fetcher, auth, hook)
    /\ UNCHANGED <<sdVars, qVars, elVars, prVars, suVars, csVars, dsVars, hpVars, nxVars>>

\* Lines 44-87: one pass of the for loop, with the return or except it ends in.
Attempt(o, hook) ==
    /\ rq_pc = "loop"
    /\ rq_i < rq_cfg.len
    /\ rq_sent' = Append(rq_sent, rq_header)
    /\ rq_out' = Append(rq_out, o)
    /\ UNCHANGED rq_cfg
    /\ IF o.exc # "none"
       THEN \* session.request raised: lines 77-87
            /\ rq_pc' = "done"
            /\ rq_result' = IF CaughtInLoop(o.exc) THEN ReturnedNone ELSE Raised
            /\ UNCHANGED <<rq_i, rq_refreshed, rq_header, rq_tok, rq_sleeps, rq_hooks>>
       ELSE IF Decide(o.code, rq_i, rq_cfg.len, rq_cfg.fetcher, rq_refreshed) = "refresh"
       THEN \* lines 62-68
            /\ rq_hooks' = Append(rq_hooks,
                   [at |-> "refresh", got |-> hook,
                    tok |-> HeaderAfterFetch(0, hook, rq_tok)])
            /\ rq_tok' = IssuedAfterFetch(hook, rq_tok)
            /\ rq_header' = HeaderAfterFetch(rq_header, hook, rq_tok)
            /\ IF hook \in {"RequestException", "KeyError"}
               THEN /\ rq_pc' = "done"
                    /\ rq_result' = IF CaughtInLoop(hook) THEN ReturnedNone ELSE Raised
                    /\ UNCHANGED <<rq_i, rq_refreshed, rq_sleeps>>
               ELSE /\ rq_refreshed' = TRUE
                    /\ rq_sleeps' = Append(rq_sleeps, rq_i)
                    /\ rq_i' = rq_i + 1
                    /\ IF rq_i + 1 < rq_cfg.len
                       THEN rq_pc' = "loop" /\ rq_result' = Pending
                       ELSE \* line 75: return last
                            rq_pc' = "done" /\ rq_result' = Resp(o.code)
       ELSE IF Decide(o.code, rq_i, rq_cfg.len, rq_cfg.fetcher, rq_refreshed) = "retry"
       THEN \* lines 69-73
            /\ rq_sleeps' = Append(rq_sleeps, rq_i)
            /\ rq_i' = rq_i + 1
            /\ rq_pc' = "loop"
            /\ rq_result' = Pending
            /\ UNCHANGED <<rq_refreshed, rq_header, rq_tok, rq_hooks>>
       ELSE \* lines 58-61 and 74
            /\ rq_pc' = "done"
            /\ rq_result' = Resp(o.code)
            /\ UNCHANGED <<rq_i, rq_refreshed, rq_header, rq_tok, rq_sleeps, rq_hooks>>

\* a pass of the loop of a call of _request on its own
RequestAttempt(o, hook) ==
    /\ Attempt(o, hook)
    /\ UNCHANGED <<sdVars, qVars, elVars, prVars, suVars, csVars, dsVars, hpVars, nxVars>>

HttpIdle == HttpInit

HttpNext ==
    \/ \E len \in 0..MaxBackoff, fetcher \in BOOLEAN, auth \in BOOLEAN,
          hook \in HookOutcomes : RequestCall(len, fetcher, auth, hook)
    \/ \E o \in Outcomes, hook \in HookOutcomes : RequestAttempt(o, hook)

-----------------------------------------------------------------------------
(* status_data.py : StatusData *)

Releases == {"r1", "r2"}

\* Statuses determine_status_from_k8s derives from a pod (tests/unit/
\* test_status_data.py); "Deleted" is only ever set by the reducer itself.
EventStatuses == {"Running", "Terminated"}

Msgs == {"", "m"}

\* deletion_timestamp None
NoDeletion == 0

NoRec == [status |-> "absent"]

\* What update() reads from the pod of a watch event.
Events ==
    {e \in [release : Releases, status : EventStatuses, cmsg : Msgs, pmsg : Msgs,
            creation : 1..MaxTs, deletion : 0..MaxTs] :
        /\ e.deletion = NoDeletion \/ e.deletion >= e.creation
        \* a Running container has no message (line 93)
        /\ e.status = "Running" => e.cmsg = ""}

\* len(pod_phases): how many pods fetch_pod_phases_in_release_from_k8s_api
\* finds; only read when the orchestrator is asked (lines 370-380).
PodCounts == {0, 1, 2}

ShouldUpdateReversed(rec, creation, deletion) ==
    \/ rec = NoRec
    \/ creation <= rec.creation
    \/ deletion # NoDeletion

\* lines 353-357
ShouldUpdate(rec, creation, deletion) ==
    \/ rec = NoRec
    \/ creation >= rec.creation
    \/ deletion # NoDeletion

\* line 363 reads status_data[release] before anything was stored for it
RaisesKeyError(rec, deletion) == rec = NoRec /\ deletion # NoDeletion

\* lines 362-366
DeletionIsNewer(rec, creation, deletion) ==
    deletion > rec.creation \/ deletion > creation

\* lines 367-382
StatusAfterPodCheck(status, newer, client, pods) ==
    IF newer /\ client /\ pods <= 1 THEN "Deleted" ELSE status

\* lines 384-385
DeletionAfterPodCheck(status, deletion) ==
    IF status # "Deleted" THEN NoDeletion ELSE deletion

\* lines 359-393: the record written for an event that is applied
NewRecord(rec, status, creation, deletion, client, pods, now) ==
    LET st == IF deletion # NoDeletion
              THEN StatusAfterPodCheck(status,
                       DeletionIsNewer(rec, creation, deletion), client, pods)
              ELSE status
        del == IF deletion # NoDeletion
               THEN DeletionAfterPodCheck(st, deletion)
               ELSE NoDeletion
    IN [creation |-> creation, deletion |-> del, status |-> st,
        event_ts |-> now, sent |-> FALSE, pod_msg |-> "", container_msg |-> ""]

\* lines 320-399
UpdateOrCreateStatus(data, status, release, creation, deletion, client, pods, now) ==
    IF ShouldUpdate(data[release], creation, deletion)
    THEN [data EXCEPT ![release] =
             NewRecord(data[release], status, creation, deletion, client, pods, now)]
    ELSE data

Max(a, b) == IF a >= b THEN a ELSE b

SdInit ==
    /\ sd = [r \in Releases |-> NoRec]
    /\ sd_client \in BOOLEAN
    /\ sd_now = 0
    /\ sd_raised = FALSE
    /\ sd_n = 0
    /\ sd_maxSeen = [r \in Releases |-> 0]
    /\ sd_maxSinceDel = [r \in Releases |-> 0]

SdIdle ==
    /\ sd = [r \in Releases |-> NoRec]
    /\ sd_client = FALSE
    /\ sd_now = 0
    /\ sd_raised = FALSE
    /\ sd_n = 0
    /\ sd_maxSeen = [r \in Releases |-> 0]
    /\ sd_maxSinceDel = [r \in Releases |-> 0]

\* lines 370-375: the orchestrator is asked for the pods of the release
AsksOrchestrator(rec, creation, deletion, client) ==
    /\ deletion # NoDeletion
    /\ rec # NoRec
    /\ DeletionIsNewer(rec, creation, deletion)
    /\ client

\* lines 241-287: what update() does to the reducer
UpdateStatusData(e, pods) ==
    /\ UNCHANGED <<sd_client, sd_now>>
    /\ sd_n < MaxEvents
    /\ sd_n' = sd_n + 1
    /\ pods = 0 \/ AsksOrchestrator(sd[e.release], e.creation, e.deletion, sd_client)
    /\ IF RaisesKeyError(sd[e.release], e.deletion)
       THEN /\ sd_raised' = TRUE
            /\ UNCHANGED <<sd, sd_maxSeen, sd_maxSinceDel>>
       ELSE /\ sd_raised' = FALSE
            /\ sd' = [UpdateOrCreateStatus(sd, e.status, e.release, e.creation,
                          e.deletion, sd_client, pods, sd_now)
                      EXCEPT ![e.release].pod_msg = e.pmsg,
                             ![e.release].container_msg = e.cmsg]
            /\ sd_maxSeen' = [sd_maxSeen EXCEPT
                                ![e.release] = Max(@, e.creation)]
            /\ sd_maxSinceDel' = [sd_maxSinceDel EXCEPT
                                ![e.release] = IF e.deletion # NoDeletion
                                               THEN e.creation
                                               ELSE Max(@, e.creation)]

\* update() called on its own
Update(e, pods) ==
    /\ UpdateStatusData(e, pods)
    /\ UNCHANGED <<httpVars, qVars, elVars, prVars, suVars, csVars, dsVars, hpVars, nxVars>>

\* time passes between two events
SdTick ==
    /\ sd_now < MaxClock
    /\ sd_now' = sd_now + 1
    /\ UNCHANGED <<sd, sd_client, sd_raised, sd_n, sd_maxSeen, sd_maxSinceDel>>
    /\ UNCHANGED <<httpVars, qVars, elVars, prVars, suVars, csVars, dsVars, hpVars, nxVars>>

SdNext ==
    \/ \E e \in Events, pods \in PodCounts : Update(e, pods)
    \/ SdTick

-----------------------------------------------------------------------------
(* status_queue.py : StatusQueue *)

RUNNING_PROBE_WINDOW == 180
RUNNING_PROBE_INTERVAL == 10
DELETED_PROBE_WINDOW == 30
DELETED_PROBE_INTERVAL == 5
NXDOMAIN_CONFIRMATION_COUNT == 2
\* the legacy grace of line 187
DELETED_GRACE == 30

\* the default of APP_PROBE_APPS (lines 42-45)
APP_PROBE_APPS == {"shiny", "shiny-proxy"}

\* the values _parse_csv_env can give APP_PROBE_STATUSES, cut to the two
\* statuses process() gates
ProbeStatusSets == SUBSET {"running", "deleted"}

\* what the prober answers (probing.py:21)
ProbeResults == {"Running", "Unknown", "NotFound"}

\* the new-status values of the records added
RecordStatuses == {"Running", "Deleted", "Pending"}

\* the app type is a label of the release's pods: one release is a shiny-proxy
\* app, the other an app of a type the listener does not probe
AppTypeOf(release) == IF release = "r1" THEN "shiny-proxy" ELSE "unknown"

\* str.lower() on the strings the records carry
Lower(str) ==
    CASE str = "Running" -> "running"
      [] str = "Deleted" -> "deleted"
      [] str = "Pending" -> "pending"
      [] str = "Terminated" -> "terminated"
      [] OTHER -> str

\* app_urls.py resolve_app_url: only a shiny-proxy app has a URL (TRUE); every
\* other app type resolves to None (FALSE)
ResolveAppUrl(app_type) == Lower(app_type) = "shiny-proxy"

\* a transient field that is not in the record
Absent == -1

\* a gate that does not look at the status of the record
ProbeEnabledForAnyStatus(rec, cfg) ==
    /\ cfg.prober
    /\ cfg.statuses # {}
    /\ Lower(rec.app_type) \in APP_PROBE_APPS
    /\ rec.app_url

\* lines 326-337
ProbeEnabledFor(rec, cfg) ==
    /\ cfg.prober
    /\ cfg.statuses # {}
    /\ Lower(rec.status) \in cfg.statuses
    /\ Lower(rec.app_type) \in APP_PROBE_APPS
    /\ rec.app_url

\* lines 317-324
ProbeCfgFor(status_lc) ==
    CASE status_lc = "running" ->
            [window |-> RUNNING_PROBE_WINDOW, interval |-> RUNNING_PROBE_INTERVAL]
      [] status_lc = "deleted" ->
            [window |-> DELETED_PROBE_WINDOW, interval |-> DELETED_PROBE_INTERVAL]
      [] OTHER -> [window |-> 0, interval |-> 0]

\* lines 339-349 computing the deadline anew from the next probe scheduled
EnsureDeadlineExtending(rec, status_lc) ==
    IF ProbeCfgFor(status_lc).window <= 0 THEN Absent
    ELSE IF rec.next_epoch # Absent
    THEN rec.next_epoch + ProbeCfgFor(status_lc).window
    ELSE rec.event_ts + ProbeCfgFor(status_lc).window

\* lines 339-349
EnsureDeadline(rec, status_lc) ==
    IF ProbeCfgFor(status_lc).window <= 0 THEN Absent
    ELSE IF rec.deadline # Absent THEN rec.deadline
    ELSE rec.event_ts + ProbeCfgFor(status_lc).window

\* a consumer that probes on every pop inside the window
AllowProbeNowAlways(rec, now) == TRUE

\* lines 351-354
AllowProbeNow(rec, now) == rec.next_epoch = Absent \/ now >= rec.next_epoch

\* lines 356-363
ScheduleNextProbe(rec, status_lc, now) ==
    [rec EXCEPT !.next_epoch = now + ProbeCfgFor(status_lc).interval]

\* a counter of NotFound answers that no other answer resets
AfterProbeWithoutReset(rec, status_lc, pr, now, count) ==
    LET seen == [rec EXCEPT !.probe = pr,
                            !.g_nf = IF pr = "NotFound" THEN @ + 1 ELSE 0,
                            !.g_probed = TRUE,
                            !.g_allRunning = @ /\ pr = "Running"]
    IN IF status_lc = "running"
       THEN IF pr # "Running"
            THEN [rec |-> ScheduleNextProbe(seen, status_lc, now), requeue |-> TRUE]
            ELSE [rec |-> seen, requeue |-> FALSE]
       ELSE IF pr = "NotFound"
            THEN LET nx == (IF seen.nx = Absent THEN 0 ELSE seen.nx) + 1
                     counted == [seen EXCEPT !.nx = nx]
                 IN IF nx < count
                    THEN [rec |-> ScheduleNextProbe(counted, status_lc, now),
                          requeue |-> TRUE]
                    ELSE [rec |-> counted, requeue |-> FALSE]
            ELSE LET reset == seen
                 IN [rec |-> ScheduleNextProbe(reset, status_lc, now),
                     requeue |-> TRUE]

\* lines 147-174: the record after one probe answered pr, and whether it is
\* requeued, for a confirmation count
AfterProbeWith(rec, status_lc, pr, now, count) ==
    LET seen == [rec EXCEPT !.probe = pr,
                            !.g_nf = IF pr = "NotFound" THEN @ + 1 ELSE 0,
                            !.g_probed = TRUE,
                            !.g_allRunning = @ /\ pr = "Running"]
    IN IF status_lc = "running"
       THEN IF pr # "Running"
            THEN [rec |-> ScheduleNextProbe(seen, status_lc, now), requeue |-> TRUE]
            ELSE [rec |-> seen, requeue |-> FALSE]
       ELSE IF pr = "NotFound"
            THEN LET nx == (IF seen.nx = Absent THEN 0 ELSE seen.nx) + 1
                     counted == [seen EXCEPT !.nx = nx]
                 IN IF nx < count
                    THEN [rec |-> ScheduleNextProbe(counted, status_lc, now),
                          requeue |-> TRUE]
                    ELSE [rec |-> counted, requeue |-> FALSE]
            ELSE LET reset == IF seen.nx # Absent THEN [seen EXCEPT !.nx = 0]
                              ELSE seen
                 IN [rec |-> ScheduleNextProbe(reset, status_lc, now),
                     requeue |-> TRUE]

\* a consumer that takes NotFound as the last word on a Running record
AfterProbePostingNotFound(rec, status_lc, pr, now) ==
    LET seen == [rec EXCEPT !.probe = pr,
                            !.g_nf = IF pr = "NotFound" THEN @ + 1 ELSE 0,
                            !.g_probed = TRUE,
                            !.g_allRunning = @ /\ pr = "Running"]
    IN IF status_lc = "running" /\ pr = "Unknown"
       THEN [rec |-> ScheduleNextProbe(seen, status_lc, now), requeue |-> TRUE]
       ELSE [rec |-> seen, requeue |-> FALSE]

\* lines 147-174 with NXDOMAIN_CONFIRMATION_COUNT at the default of line 31
AfterProbe(rec, status_lc, pr, now) ==
    AfterProbeWith(rec, status_lc, pr, now, NXDOMAIN_CONFIRMATION_COUNT)

\* lines 134-178: the probing path
ProbingPath(rec, status_lc, pr, now, cfg) ==
    IF status_lc \in {"running", "deleted"} /\ ProbeEnabledFor(rec, cfg)
    THEN LET due == [rec EXCEPT !.deadline = EnsureDeadline(rec, status_lc)]
         IN IF due.deadline # Absent /\ now < due.deadline
            THEN IF AllowProbeNow(due, now)
                 THEN AfterProbe(due, status_lc, pr, now)
                 ELSE [rec |-> due, requeue |-> TRUE]
            ELSE [rec |-> due, requeue |-> FALSE]
    ELSE [rec |-> rec, requeue |-> FALSE]

\* lines 181-188: the legacy grace of a Deleted record
LegacyGrace(rec, status_lc, requeue, now, cfg) ==
    /\ status_lc = "deleted"
    /\ "deleted" \notin cfg.statuses
    /\ ~requeue
    /\ now - rec.event_ts < DELETED_GRACE

\* lines 127-195: what process() decides for the record it took
Handle(rec, pr, now, cfg) ==
    LET status_lc == Lower(rec.status)
        probed == ProbingPath(rec, status_lc, pr, now, cfg)
    IN [rec |-> probed.rec,
        requeue |-> probed.requeue
                      \/ LegacyGrace(probed.rec, status_lc, probed.requeue, now, cfg)]

\* whether process() calls the prober for the record it took
Probes(rec, now, cfg) ==
    LET status_lc == Lower(rec.status)
        due == [rec EXCEPT !.deadline = EnsureDeadline(rec, status_lc)]
    IN /\ status_lc \in {"running", "deleted"}
       /\ ProbeEnabledFor(rec, cfg)
       /\ due.deadline # Absent
       /\ now < due.deadline
       /\ AllowProbeNow(due, now)

\* a consumer that takes the record added last instead
GetIndexLast(queue) == Len(queue)

\* line 126: queue.get() takes the record at the front
GetIndex(queue) == 1

Without(queue, i) == SubSeq(queue, 1, i - 1) \o SubSeq(queue, i + 1, Len(queue))

QInit ==
    /\ q = <<>>
    /\ q_cfg \in [prober : BOOLEAN, statuses : ProbeStatusSets]
    /\ q_stop = FALSE
    /\ q_now = 0
    /\ q_added = 0
    /\ q_posted = <<>>

QIdle ==
    /\ q = <<>>
    /\ q_cfg = [prober |-> FALSE, statuses |-> {}]
    /\ q_stop = FALSE
    /\ q_now = 0
    /\ q_added = 0
    /\ q_posted = <<>>

\* a record as add() receives it: no transient field is set yet
AddedRecord(id, release, status, event_ts) ==
    [id |-> id, release |-> release, status |-> status,
     event_ts |-> event_ts, app_type |-> AppTypeOf(release),
     app_url |-> ResolveAppUrl(AppTypeOf(release)),
     deadline |-> Absent,
     next_epoch |-> Absent, nx |-> Absent, probe |-> "none",
     g_nf |-> 0, g_probed |-> FALSE, g_allRunning |-> TRUE,
     g_requeued |-> FALSE]

\* lines 99-106, called by the watch loop (event_listener.py:194-200), which
\* adds nothing once it has called stop_processing (event_listener.py:251-255)
Enqueue(release, status, event_ts) ==
    /\ ~q_stop
    /\ q_added' = q_added + 1
    /\ q' = Append(q, AddedRecord(q_added + 1, release, status, event_ts))
    /\ UNCHANGED <<q_cfg, q_now, q_posted>>

\* add(), up to MaxAdds times
Put(release, status, event_ts) ==
    /\ q_added < MaxAdds
    /\ Enqueue(release, status, event_ts)

\* add() of a record the reducer has just stamped with the time
Add(release, status) ==
    /\ Put(release, status, q_now)
    /\ UNCHANGED q_stop
    /\ UNCHANGED <<httpVars, sdVars, elVars, prVars, suVars, csVars, dsVars, hpVars, nxVars>>

\* a consumer that puts a record to requeue back at the front
RequeueAtFront(queue, rec) == <<rec>> \o queue

\* lines 190-192: queue.put(rec) puts the record at the end
Requeue(queue, rec) == Append(queue, rec)

\* lines 121-239: one pass of the loop of process() that finds a record
Process(pr) ==
    /\ ~q_stop
    /\ q # <<>>
    /\ pr = "Unknown" \/ Probes(q[GetIndex(q)], q_now, q_cfg)
    /\ LET done == Handle(q[GetIndex(q)], pr, q_now, q_cfg)
           rest == Without(q, GetIndex(q))
       IN IF done.requeue
          THEN \* lines 190-195
               /\ q' = Requeue(rest, [done.rec EXCEPT !.g_requeued = TRUE])
               /\ UNCHANGED q_posted
          ELSE \* lines 197-211
               /\ q' = rest
               /\ q_posted' = Append(q_posted, [rec |-> done.rec, at |-> q_now])
    /\ UNCHANGED <<q_cfg, q_stop, q_now, q_added>>
    /\ UNCHANGED <<httpVars, sdVars, elVars, prVars, suVars, csVars, dsVars, hpVars, nxVars>>

\* lines 249-252
StopProcessing ==
    /\ ~q_stop
    /\ q_stop' = TRUE
    /\ UNCHANGED <<q, q_cfg, q_now, q_added, q_posted>>
    /\ UNCHANGED <<httpVars, sdVars, elVars, prVars, suVars, csVars, dsVars, hpVars, nxVars>>

\* time passes while a record waits and the consumer runs; a step of ten
\* seconds lets a pass find the next probe not yet due, due, and the window
\* or the grace elapsed
TickSteps == {10}

QTick(d) ==
    /\ ~q_stop
    /\ q # <<>>
    /\ q_now + d <= MaxTime
    /\ q_now' = q_now + d
    /\ UNCHANGED <<q, q_cfg, q_stop, q_added, q_posted>>
    /\ UNCHANGED <<httpVars, sdVars, elVars, prVars, suVars, csVars, dsVars, hpVars, nxVars>>

QNext ==
    \/ \E release \in Releases, status \in RecordStatuses : Add(release, status)
    \/ \E pr \in ProbeResults : Process(pr)
    \/ StopProcessing
    \/ \E d \in TickSteps : QTick(d)

\* The queue followed over a whole Running window: the prober is there and
\* APP_PROBE_STATUSES holds "running".
QInitRunning ==
    /\ q = <<>>
    /\ q_cfg \in {c \in [prober : BOOLEAN, statuses : ProbeStatusSets] :
                     c.prober /\ "running" \in c.statuses}
    /\ q_stop = FALSE
    /\ q_now = 0
    /\ q_added = 0
    /\ q_posted = <<>>

\* add() of a Running record, early enough for its window to end before the
\* clock of the model stops
AddRunning(release) ==
    /\ q_now + RUNNING_PROBE_WINDOW <= MaxRunTime
    /\ Add(release, "Running")

\* the clock is read once a minute: a pass of the consumer finds the next
\* probe of a record not yet due, or due, or the window elapsed
WindowTickSteps == {60}

\* time passes, up to the end of the Running windows
QTickRunning(d) ==
    /\ ~q_stop
    /\ q # <<>>
    /\ q_now + d <= MaxRunTime
    /\ q_now' = q_now + d
    /\ UNCHANGED <<q, q_cfg, q_stop, q_added, q_posted>>
    /\ UNCHANGED <<httpVars, sdVars, elVars, prVars, suVars, csVars, dsVars, hpVars, nxVars>>

\* what the prober answers during the window: for a Running record process()
\* only tests whether the answer is Running (line 157)
WindowProbeResults == {"Running", "Unknown"}

QNextRunning ==
    \/ \E release \in Releases : AddRunning(release)
    \/ \E pr \in WindowProbeResults : Process(pr)
    \/ StopProcessing
    \/ \E d \in WindowTickSteps : QTickRunning(d)

-----------------------------------------------------------------------------
(* event_listener.py : EventListener.listen *)

\* line 151
max_retries == 10

\* self.resource_version is None
NoVersion == 0

\* What the pod list or the watch stream can raise, by the except clause
\* that takes it (lines 202-252).
ApiStatuses == {410, 401, 500, 404}

Exceptions ==
    [kind : {"ApiException"}, status : ApiStatuses]
        \cup [kind : {"ProtocolError", "ValueError", "NetworkError", "Exception"},
              status : {0}]

Gone == [kind |-> "ApiException", status |-> 410]

\* a handler of lines 208-229 that counts the 410 as a retry too
AfterApiExceptionCounted(status, rv, retries) ==
    [rv |-> IF status = 410 THEN NoVersion ELSE rv, retries |-> retries + 1]

\* lines 208-229: the resource version and the retry counter after an
\* ApiException
AfterApiException(status, rv, retries) ==
    IF status = 410
    THEN [rv |-> NoVersion, retries |-> retries]
    ELSE [rv |-> rv, retries |-> retries + 1]

\* handlers that count a network error as a retry too
AfterExceptionCountingAll(exc, rv, retries) ==
    CASE exc.kind = "ApiException" ->
            [rv |-> AfterApiException(exc.status, rv, retries).rv,
             retries |-> AfterApiException(exc.status, rv, retries).retries,
             break |-> FALSE]
      [] exc.kind \in {"ProtocolError", "ValueError", "NetworkError"} ->
            [rv |-> rv, retries |-> retries + 1, break |-> FALSE]
      [] OTHER ->
            [rv |-> rv, retries |-> retries, break |-> TRUE]

\* lines 202-252: the resource version and the retry counter after the
\* exception, and whether the loop is left
AfterException(exc, rv, retries) ==
    CASE exc.kind = "ProtocolError" ->
            [rv |-> rv, retries |-> retries + 1, break |-> FALSE]
      [] exc.kind = "ApiException" ->
            [rv |-> AfterApiException(exc.status, rv, retries).rv,
             retries |-> AfterApiException(exc.status, rv, retries).retries,
             break |-> FALSE]
      [] exc.kind = "ValueError" ->
            [rv |-> rv, retries |-> retries + 1, break |-> FALSE]
      [] exc.kind = "NetworkError" ->
            [rv |-> rv, retries |-> retries, break |-> FALSE]
      [] OTHER ->
            [rv |-> rv, retries |-> retries, break |-> TRUE]

\* line 165: while retries < max_retries
LoopContinues(retries) == retries < max_retries

\* a listen() that leaves the egress consumer running when it gives up
ExitStopsQueueNever(retries) == FALSE

\* lines 254-255: if retries >= max_retries: stop_processing()
ExitStopsQueue(retries) == retries >= max_retries

\* lines 317-327: the version the pod list carries; the cluster's version
\* grows with every event it has sent
ClusterVersion == sd_n + 1

\* lines 401-406: the releases whose record has the greatest event-ts; max()
\* takes the first of them in the dict's order, which the model leaves open
LatestReleases(data) ==
    {r \in Releases :
        /\ data[r] # NoRec
        /\ \A o \in Releases : data[o] # NoRec => data[o].event_ts <= data[r].event_ts}

\* get_status_record(), whose code is not in the source tree, as the
\* specification describes latest(): the record of the release r that has the
\* greatest event-ts, with its release name
GetStatusRecord(data, r) ==
    [release |-> r, status |-> data[r].status, event_ts |-> data[r].event_ts]

\* the events the stream delivers: pods created at one time, with no messages
\* (the reducer's use of the timestamps and messages is SpecReducer's matter)
StreamEvents ==
    {e \in Events : e.creation = 1 /\ e.deletion <= 1 /\ e.pmsg = "" /\ e.cmsg = ""}

NotOpened == [rv |-> NoVersion, fresh |-> FALSE, afterGone |-> FALSE]

ElInit ==
    /\ el_pc = "idle"
    /\ el_setup \in BOOLEAN
    /\ el_thread = FALSE
    /\ el_rv = NoVersion
    /\ el_retries = 0
    /\ el_gone = FALSE
    /\ el_open = NotOpened
    /\ el_seen = NoVersion
    /\ el_slept = 0

ElIdle ==
    /\ el_pc = "idle"
    /\ el_setup = FALSE
    /\ el_thread = FALSE
    /\ el_rv = NoVersion
    /\ el_retries = 0
    /\ el_gone = FALSE
    /\ el_open = NotOpened
    /\ el_seen = NoVersion
    /\ el_slept = 0

\* lines 156-163
ListenStart ==
    /\ el_pc = "idle"
    /\ el_pc' = IF el_setup THEN "loop" ELSE "done"
    /\ el_thread' = el_setup
    /\ el_retries' = 0
    /\ UNCHANGED <<el_setup, el_rv, el_gone, el_open, el_seen, el_slept>>
    /\ UNCHANGED <<httpVars, sdVars, qVars, prVars, suVars, csVars, dsVars, hpVars, nxVars>>

\* lines 165-185: the pod list, when there is no resource version, and the
\* opening of the watch stream
OpenWatch ==
    /\ el_pc = "loop"
    /\ LoopContinues(el_retries)
    /\ el_rv' = IF el_rv = NoVersion THEN ClusterVersion ELSE el_rv
    /\ el_open' = [rv |-> el_rv', fresh |-> el_rv = NoVersion, afterGone |-> el_gone]
    /\ el_gone' = FALSE
    /\ el_seen' = IF el_rv = NoVersion THEN ClusterVersion ELSE el_seen
    /\ el_slept' = 0
    /\ el_pc' = "stream"
    /\ UNCHANGED <<el_setup, el_thread, el_retries>>
    /\ UNCHANGED <<httpVars, sdVars, qVars, prVars, suVars, csVars, dsVars, hpVars, nxVars>>

\* line 154
retry_delay == 3

\* lines 202-244: the seconds the except clause of the exception sleeps
SleepsAfter(exc) ==
    CASE exc.kind = "ProtocolError" -> retry_delay
      [] exc.kind = "ApiException" -> retry_delay
      [] exc.kind = "NetworkError" -> 5
      [] OTHER -> 0

\* lines 202-252: the except clauses, entered with rv stored as the
\* resource version
HandlesAt(exc, rv) ==
    LET after == AfterException(exc, rv, el_retries)
    IN /\ el_rv' = after.rv
       /\ el_retries' = after.retries
       /\ el_slept' = IF exc = Gone THEN SleepsAfter(exc) ELSE el_slept
       /\ el_gone' = (el_gone \/ exc = Gone)
       /\ el_pc' = IF after.break THEN "done" ELSE "loop"
       /\ q_stop' = (q_stop \/ after.break)
       /\ UNCHANGED <<el_setup, el_thread, el_open>>
       /\ UNCHANGED <<q, q_cfg, q_now, q_added, q_posted>>

\* lines 202-252: the except clauses, entered from the pod list or the stream
Handles(exc) == HandlesAt(exc, el_rv) /\ UNCHANGED el_seen

\* an assignment of the event's version that comes after the reducer
VersionAfterEventReduced(raised, rv, event_rv) == IF raised THEN rv ELSE event_rv

\* lines 186-192: the version of the event is stored before update() is
\* called, so it is stored also when update() raises
VersionAfterEvent(raised, rv, event_rv) == event_rv

\* a loop that starts counting anew once an event has come through
RetriesAfterEventReset(retries) == 0

\* lines 186-200: nothing in the body of the for loop assigns retries
RetriesAfterEvent(retries) == retries

\* lines 168-172: the pod list raises
ListRaises(exc) ==
    /\ el_pc = "loop"
    /\ LoopContinues(el_retries)
    /\ el_rv = NoVersion
    /\ Handles(exc)
    /\ UNCHANGED <<httpVars, sdVars, prVars, suVars, csVars, dsVars, hpVars, nxVars>>

\* lines 179-200: the stream delivers an event; update() raising the
\* KeyError of status_data.py:363 is taken by the last except clause
ReduceAndPublish(e, pods, maxAdds) ==
    /\ el_pc = "stream"
    /\ UpdateStatusData(e, pods)
    /\ el_seen' = ClusterVersion + 1
    /\ IF sd_raised'
       THEN /\ HandlesAt([kind |-> "Exception", status |-> 0],
                         VersionAfterEvent(TRUE, el_rv, ClusterVersion + 1))
       ELSE /\ el_rv' = VersionAfterEvent(FALSE, el_rv, ClusterVersion + 1)
            /\ q_added < maxAdds
            /\ \E r \in LatestReleases(sd') :
                  LET record == GetStatusRecord(sd', r)
                  IN Enqueue(record.release, record.status, record.event_ts)
            /\ el_retries' = RetriesAfterEvent(el_retries)
            /\ UNCHANGED <<el_pc, el_setup, el_thread, el_gone, el_open, el_slept>>
            /\ UNCHANGED q_stop
    /\ UNCHANGED <<httpVars, prVars, suVars, csVars, dsVars, hpVars, nxVars>>

WatchEvent(e, pods) == ReduceAndPublish(e, pods, MaxAdds)

\* every event the stream may deliver, messages aside: pods of any age, so
\* that the reducer drops some of them as stale
PublishEvents == {e \in Events : e.pmsg = "" /\ e.cmsg = ""}

\* the stream delivers an event of any age; the queue takes a record for
\* each event reduced
WatchAnyEvent(e, pods) == ReduceAndPublish(e, pods, MaxEvents)

\* events that are not what update() expects: no "object" in the event, a
\* pod whose metadata.labels is None, a pod status with a container whose
\* state is None
MalformedKinds == {"no_object", "no_labels", "no_state"}

\* status_data.py lines 253-267 and 60-62: update() skips an event without
\* object; labels.get and state.terminated raise AttributeError on None
UpdateRaisesOn(kind) == kind \in {"no_labels", "no_state"}

\* lines 187-192: listen() reads event["object"].metadata before it calls
\* update()
ListenRaisesOn(kind) == kind = "no_object" \/ UpdateRaisesOn(kind)

\* lines 179-252: the stream delivers a malformed event
WatchMalformed(kind) ==
    /\ el_pc = "stream"
    /\ sd_raised' = UpdateRaisesOn(kind)
    /\ UNCHANGED <<sd, sd_client, sd_now, sd_n, sd_maxSeen, sd_maxSinceDel>>
    /\ IF UpdateRaisesOn(kind)
       THEN /\ el_seen' = ClusterVersion + 1
            /\ HandlesAt([kind |-> "Exception", status |-> 0],
                         VersionAfterEvent(TRUE, el_rv, ClusterVersion + 1))
       ELSE IF ListenRaisesOn(kind)
       THEN Handles([kind |-> "Exception", status |-> 0])
       ELSE UNCHANGED <<elVars, qVars>>
    /\ UNCHANGED <<httpVars, prVars, suVars, csVars, dsVars, hpVars, nxVars>>

\* lines 179-185: the stream ends at its timeout
WatchEnds ==
    /\ el_pc = "stream"
    /\ el_pc' = "loop"
    /\ UNCHANGED <<el_setup, el_thread, el_rv, el_retries, el_gone, el_open,
                   el_seen, el_slept>>
    /\ UNCHANGED <<httpVars, sdVars, qVars, prVars, suVars, csVars, dsVars, hpVars, nxVars>>

\* lines 179-252: the stream raises
WatchRaises(exc) ==
    /\ el_pc = "stream"
    /\ Handles(exc)
    /\ UNCHANGED <<httpVars, sdVars, prVars, suVars, csVars, dsVars, hpVars, nxVars>>

\* lines 165, 254-256: the loop ends with the retries used up
LoopExit ==
    /\ el_pc = "loop"
    /\ ~LoopContinues(el_retries)
    /\ el_pc' = "done"
    /\ q_stop' = (q_stop \/ ExitStopsQueue(el_retries))
    /\ UNCHANGED <<el_setup, el_thread, el_rv, el_retries, el_gone, el_open,
                   el_seen, el_slept>>
    /\ UNCHANGED <<q, q_cfg, q_now, q_added, q_posted>>
    /\ UNCHANGED <<httpVars, sdVars, prVars, suVars, csVars, dsVars, hpVars, nxVars>>

\* listen() on a watch that raises nothing, fed with events of any age and
\* with malformed ones
PublishNext ==
    \/ ListenStart
    \/ OpenWatch
    \/ \E e \in PublishEvents, pods \in PodCounts : WatchAnyEvent(e, pods)
    \/ \E kind \in MalformedKinds : WatchMalformed(kind)
    \/ SdTick

ElNext ==
    \/ ListenStart
    \/ OpenWatch
    \/ \E exc \in Exceptions : ListRaises(exc)
    \/ \E e \in StreamEvents, pods \in PodCounts : WatchEvent(e, pods)
    \/ WatchEnds
    \/ \E exc \in Exceptions : WatchRaises(exc)
    \/ LoopExit
    \/ SdTick

-----------------------------------------------------------------------------
(* probing.py : AppAvailabilityProbe.probe_url *)

DnsOutcomes == {"resolves", "gaierror"}

NoProbeResult == [status |-> "none", code |-> 0]

\* port80_status None
NoCode == 0

\* Lines 48-56: _dns_resolves, for a URL with or without a host.
DnsResolves(in) == in.host /\ in.dns = "resolves"

\* Line 82 with only the 2xx range
IsUpOnlyOnSuccess(code) == code # NoCode /\ 200 <= code /\ code < 300

\* Line 82: the server answered OK or a redirect.
IsUp(code) == code # NoCode /\ 200 <= code /\ code < 400

\* Line 79: the status code of the response, None when there is none.
CodeOf(result) == IF result.kind = "resp" THEN result.code ELSE NoCode

\* Lines 79-92: the ProbeResult for what http_get returned.
Classify(result) ==
    LET code == CodeOf(result)
    IN IF IsUp(code)
       THEN [status |-> "Running", code |-> code]
       ELSE [status |-> "Unknown", code |-> code]

PrInit ==
    /\ pr_pc = "idle"
    /\ pr_in = [host |-> FALSE, dns |-> "gaierror"]
    /\ pr_result = NoProbeResult

PrIdle == PrInit

\* Lines 58-78: probe_url up to the GET; the schedule is the one the prober
\* was constructed with, no token fetcher and no bearer header are passed.
ProbeStart(host, dns, len) ==
    /\ pr_pc = "idle"
    /\ rq_pc = "idle"
    /\ pr_in' = [host |-> host, dns |-> dns]
    /\ IF DnsResolves([host |-> host, dns |-> dns])
       THEN /\ BeginRequest(len, FALSE, FALSE, "empty")
            /\ pr_pc' = "get"
            /\ UNCHANGED pr_result
       ELSE /\ pr_result' = [status |-> "NotFound", code |-> NoCode]
            /\ pr_pc' = "done"
            /\ UNCHANGED httpVars
    /\ UNCHANGED <<sdVars, qVars, elVars, suVars, csVars, dsVars, hpVars, nxVars>>

\* Lines 71-78: one pass of the loop of the GET.
ProbeAttempt(o) ==
    /\ pr_pc = "get"
    /\ Attempt(o, "empty")
    /\ UNCHANGED <<sdVars, qVars, elVars, prVars, suVars, csVars, dsVars, hpVars, nxVars>>

\* Lines 79-92: the GET has returned.
ProbeFinish ==
    /\ pr_pc = "get"
    /\ rq_pc = "done"
    /\ pr_result' = Classify(rq_result)
    /\ pr_pc' = "done"
    /\ UNCHANGED <<pr_in, httpVars, sdVars, qVars, elVars, suVars, csVars, dsVars, hpVars, nxVars>>

PrNext ==
    \/ \E host \in BOOLEAN, dns \in DnsOutcomes, len \in 1..MaxBackoff :
           ProbeStart(host, dns, len)
    \/ \E o \in Outcomes : ProbeAttempt(o)
    \/ ProbeFinish

-----------------------------------------------------------------------------
(* event_listener.py : EventListener.setup, check_serve_api_status, fetch_token *)

\* Line 76: self.backoff_seconds = (1, 2, 4)
SetupBackoffLen == 3

\* what the token endpoint may put in the body of a 200
TokenBodies == {"token", "empty", "missing", "nonstring", "nonjson", "nondict"}

\* probing.py lines 37-43: the keywords AppAvailabilityProbe.__init__ accepts
ProbeInitKeywords == {"timeout", "backoff_seconds"}

\* Lines 119-124: the keywords setup() constructs the prober with
SetupProbeKeywords == {"verify_tls", "timeout", "backoff_seconds"}

\* A call with a keyword the signature lacks raises TypeError.
Constructs(passed, accepted) == passed \subseteq accepted

NoToken == 0

NoRun ==
    [ping |-> Pending, client |-> FALSE, fetched |-> FALSE, resp |-> Pending,
     body |-> "none", out |-> "none", tokenBefore |-> NoToken,
     prober |-> "none", completeBefore |-> FALSE]

\* Line 279 taking any response for a pong
PingOkAnyResponse(result) == result.kind = "resp"

\* Lines 260-279: check_serve_api_status.
PingOk(result) == result.kind = "resp" /\ result.code = 200

\* Lines 387-409 taking an empty token for a token
FetchTokenAcceptingEmpty(result, body) ==
    IF result.kind # "resp" THEN "RequestException"
    ELSE IF result.code # 200 THEN "RequestException"
    ELSE CASE body = "nonjson" -> "RequestException"
           [] body = "nondict" -> "AttributeError"
           [] body \in {"missing", "nonstring"} -> "KeyError"
           [] OTHER -> "token"

\* Lines 387-415: what fetch_token does with the answer of the token endpoint:
\* "token" when it stores and returns one, else the exception it raises.
FetchToken(result, body) ==
    IF result.kind # "resp" THEN "RequestException"
    ELSE IF result.code # 200 THEN "RequestException"
    ELSE CASE body = "nonjson" -> "RequestException"
           [] body = "nondict" -> "AttributeError"
           [] body \in {"empty", "missing", "nonstring"} -> "KeyError"
           [] OTHER -> "token"

SuInit ==
    /\ su_pc = "idle"
    /\ su_n = 0
    /\ su_token = NoToken
    /\ su_issued = 0
    /\ su_client = FALSE
    /\ su_prober = FALSE
    /\ su_queue = FALSE
    /\ su_run = NoRun

SuIdle == SuInit

\* Lines 105-109 and 260-272: setup() is called and sends the ping.
SetupStart ==
    /\ su_pc \in {"idle", "done"}
    /\ el_pc = "idle"
    /\ su_n < MaxSetups
    /\ su_n' = su_n + 1
    /\ BeginRequest(SetupBackoffLen, FALSE, FALSE, "empty")
    /\ su_run' = [NoRun EXCEPT !.completeBefore = el_setup,
                               !.tokenBefore = su_token]
    /\ su_pc' = "ping"
    /\ UNCHANGED <<su_token, su_issued, su_client, su_prober, su_queue>>
    /\ UNCHANGED <<sdVars, qVars, elVars, prVars, csVars, dsVars, hpVars, nxVars>>

\* One pass of the loop of the ping GET or of the token POST.
SetupAttempt(o) ==
    /\ su_pc \in {"ping", "token"}
    /\ Attempt(o, "empty")
    /\ UNCHANGED <<sdVars, qVars, elVars, prVars, suVars, csVars, dsVars, hpVars, nxVars>>

\* Lines 109-116, 281-315 and 373-385: the ping has returned; on a pong
\* setup_client() runs and fetch_token() sends its POST.
SetupAfterPing(configLoads) ==
    /\ su_pc = "ping"
    /\ rq_pc = "done"
    /\ IF ~PingOk(rq_result)
       THEN /\ su_run' = [su_run EXCEPT !.ping = rq_result]
            /\ su_pc' = "done"
            /\ UNCHANGED <<su_client, httpVars>>
       ELSE IF ~configLoads
       THEN /\ su_run' = [su_run EXCEPT !.ping = rq_result, !.client = TRUE]
            /\ su_pc' = "done"
            /\ UNCHANGED <<su_client, httpVars>>
       ELSE /\ su_run' = [su_run EXCEPT !.ping = rq_result, !.client = TRUE,
                                         !.fetched = TRUE]
            /\ su_client' = TRUE
            /\ BeginRequest(SetupBackoffLen, FALSE, FALSE, "empty")
            /\ su_pc' = "token"
    /\ UNCHANGED <<su_n, su_token, su_issued, su_prober, su_queue>>
    /\ UNCHANGED <<sdVars, qVars, elVars, prVars, csVars, dsVars, hpVars, nxVars>>

\* Lines 387-415 and 116-138: the token POST has returned; fetch_token
\* stores the token or raises, and setup() goes on to the end or to its
\* except clause.
SetupAfterToken(body) ==
    /\ su_pc = "token"
    /\ rq_pc = "done"
    /\ LET out == FetchToken(rq_result, body)
           built == Constructs(SetupProbeKeywords, ProbeInitKeywords)
       IN IF out = "token"
          THEN /\ su_issued' = su_issued + 1
               /\ su_token' = su_issued + 1
               /\ sd_client' = TRUE
               /\ su_prober' = (su_prober \/ built)
               /\ su_queue' = (su_queue \/ built)
               /\ el_setup' = (el_setup \/ built)
               /\ su_run' = [su_run EXCEPT
                                !.resp = rq_result, !.body = body, !.out = out,
                                !.prober = IF built THEN "built"
                                                    ELSE "TypeError"]
          ELSE /\ su_run' = [su_run EXCEPT
                                !.resp = rq_result, !.body = body, !.out = out]
               /\ UNCHANGED <<su_issued, su_token, sd_client, su_prober,
                              su_queue, el_setup>>
    /\ su_pc' = "done"
    /\ UNCHANGED <<su_n, su_client>>
    /\ UNCHANGED <<sd, sd_now, sd_raised, sd_n, sd_maxSeen, sd_maxSinceDel>>
    /\ UNCHANGED <<el_pc, el_thread, el_rv, el_retries, el_gone, el_open, el_seen, el_slept>>
    /\ UNCHANGED <<httpVars, qVars, prVars, csVars, dsVars, hpVars, nxVars>>

\* listen() called once setup() has returned
ListenAfterSetup ==
    /\ su_pc = "done"
    /\ ListenStart

SuNext ==
    \/ SetupStart
    \/ \E o \in Outcomes : SetupAttempt(o)
    \/ \E configLoads \in BOOLEAN : SetupAfterPing(configLoads)
    \/ \E body \in TokenBodies : SetupAfterToken(body)
    \/ ListenAfterSetup

-----------------------------------------------------------------------------
(* status_queue.py : StatusQueue.process, statement by statement *)

\* no record in hand
NoRecord == [id |-> 0]

\* the status codes the API answers a POST with; the body of a 404 only selects
\* the line that is logged (lines 218-231)
PostCodes == {200, 404, 503}

\* what http_post gives: None, a response, or an exception that is not a
\* requests exception (client.py lets it pass)
PostResults == {ReturnedNone, Raised} \cup {Resp(c) : c \in PostCodes}

\* a loop whose `continue` goes on with the next queue.get()
AfterRequeueSkippingTest == "get"

\* lines 190-195: `continue` goes back to the test of the while loop
AfterRequeue == "while"

\* a consumer that puts the record back when the POST failed
RequeueAfterPostFailed(resp) == resp = ReturnedNone \/ (resp.kind = "resp" /\ resp.code >= 400)

\* lines 203-233: after http_post the record is marked done and the answer is
\* only logged, whatever it is
RequeueAfterPost(resp) == FALSE

CsInit ==
    /\ cs_pc = "while"
    /\ cs_rec = NoRecord
    /\ cs_late = 0
    /\ cs_out = <<>>
    /\ cs_token = InitialToken
    /\ cs_eltoken = InitialToken
    /\ cs_sent = NoToken
    /\ cs_owed = 0

CsIdle ==
    /\ cs_pc = "while"
    /\ cs_rec = NoRecord
    /\ cs_late = 0
    /\ cs_out = <<>>
    /\ cs_token = InitialToken
    /\ cs_eltoken = InitialToken
    /\ cs_sent = NoToken
    /\ cs_owed = 0

\* line 121: the test of the while loop
CsTest ==
    /\ cs_pc = "while"
    /\ cs_pc' = IF q_stop THEN "returned" ELSE "get"
    /\ UNCHANGED <<cs_rec, cs_late, cs_out, cs_token, cs_eltoken, cs_sent, cs_owed>>
    /\ UNCHANGED qVars
    /\ UNCHANGED <<httpVars, sdVars, elVars, prVars, suVars, dsVars, hpVars, nxVars>>

\* lines 122-126 and 241-246: queue.get(timeout=2) takes the record at the
\* front, or raises Empty when none came within two seconds
CsGet ==
    /\ cs_pc = "get"
    /\ IF q = <<>>
       THEN /\ cs_pc' = "while"
            /\ UNCHANGED <<q, cs_rec, cs_late, cs_owed>>
       ELSE /\ cs_pc' = "handle"
            /\ cs_rec' = q[GetIndex(q)]
            /\ q' = Without(q, GetIndex(q))
            /\ cs_late' = IF q_stop /\ cs_late < 2 THEN cs_late + 1 ELSE cs_late
            /\ cs_owed' = cs_owed + 1
    /\ UNCHANGED <<cs_out, cs_token, cs_eltoken, cs_sent>>
    /\ UNCHANGED <<q_cfg, q_stop, q_now, q_added, q_posted>>
    /\ UNCHANGED <<httpVars, sdVars, elVars, prVars, suVars, dsVars, hpVars, nxVars>>

\* lines 127-195: the probing path and the legacy grace; for a record to
\* requeue task_done() is called, the record is put back and the loop continues
CsHandle(pr) ==
    /\ cs_pc = "handle"
    /\ pr = "Unknown" \/ Probes(cs_rec, q_now, q_cfg)
    /\ LET done == Handle(cs_rec, pr, q_now, q_cfg)
       IN IF done.requeue
          THEN /\ q' = Requeue(q, [done.rec EXCEPT !.g_requeued = TRUE])
               /\ cs_rec' = NoRecord
               /\ cs_owed' = cs_owed - 1
               /\ cs_pc' = AfterRequeue
          ELSE /\ cs_rec' = done.rec
               /\ cs_pc' = "post"
               /\ UNCHANGED <<q, cs_owed>>
    /\ UNCHANGED <<cs_late, cs_out, cs_token, cs_eltoken, cs_sent>>
    /\ UNCHANGED <<q_cfg, q_stop, q_now, q_added, q_posted>>
    /\ UNCHANGED <<httpVars, sdVars, elVars, prVars, suVars, dsVars, hpVars, nxVars>>

\* lines 197-239: the one http_post call for the record, with the header made
\* of the queue's own token; its answer is logged and the loop goes on, an
\* exception it lets pass ends process() before task_done().  fetched: the
\* call met a 401 or 403 and the token_fetcher, EventListener.fetch_token,
\* stored and returned a new token (event_listener.py:403-415); Raised is the
\* token_fetcher raising KeyError.  The tokens fetched are not told apart: all
\* that is kept of one is that it is not the token process() started with.
CsPost(resp, fetched) ==
    /\ cs_pc = "post"
    /\ fetched => resp # Raised
    /\ q_posted' = Append(q_posted, [rec |-> cs_rec, at |-> q_now])
    /\ cs_out' = Append(cs_out, resp)
    /\ cs_sent' = cs_token
    /\ cs_eltoken' = IF fetched THEN InitialToken + 1 ELSE cs_eltoken
    /\ cs_rec' = NoRecord
    /\ IF resp = Raised
       THEN cs_pc' = "raised" /\ UNCHANGED <<q, cs_owed>>
       ELSE /\ cs_pc' = "while"
            /\ cs_owed' = cs_owed - 1
            /\ q' = IF RequeueAfterPost(resp) THEN Append(q, cs_rec) ELSE q
    /\ UNCHANGED <<cs_late, cs_token>>
    /\ UNCHANGED <<q_cfg, q_stop, q_now, q_added>>
    /\ UNCHANGED <<httpVars, sdVars, elVars, prVars, suVars, dsVars, hpVars, nxVars>>

\* a step of the consumer thread
CsStep ==
    \/ CsTest
    \/ CsGet
    \/ \E pr \in ProbeResults : CsHandle(pr)
    \/ \E resp \in PostResults, fetched \in BOOLEAN : CsPost(resp, fetched)

\* the consumer thread, the watch thread adding records and stopping the
\* queue, and the clock
CsNext ==
    \/ CsTest
    \/ CsGet
    \/ \E pr \in ProbeResults : CsHandle(pr)
    \/ \E resp \in PostResults, fetched \in BOOLEAN : CsPost(resp, fetched)
    \/ \E release \in Releases, status \in RecordStatuses : Add(release, status)
    \/ StopProcessing

-----------------------------------------------------------------------------
(* status_data.py : StatusData.determine_status_from_k8s *)

\* container_status.state of one container: which of terminated, waiting and
\* running is set, with the reason and message of the one that is, and
\* container_status.ready
ContainerStatuses ==
    [state : {"terminated"}, reason : {"Completed", "Error"}, message : Msgs,
     ready : {FALSE}]
    \cup [state : {"waiting"}, reason : {"PodInitializing"}, message : Msgs,
          ready : {FALSE}]
    \cup [state : {"running"}, reason : {""}, message : {""}, ready : BOOLEAN]
    \cup [state : {"none"}, reason : {""}, message : {""}, ready : {FALSE}]

ContainerLists ==
    UNION {[1..n -> ContainerStatuses] : n \in 0..MaxContainers}

\* init_container_statuses / container_statuses: None, or a list
StatusLists ==
    [given : {FALSE}, items : {<<>>}] \cup [given : {TRUE}, items : ContainerLists]

\* status_object.phase
Phases == {"Pending", "Running"}

\* status_object.message: None or a text
PodMessages == {"None", "m"}

PodStatuses ==
    [init : StatusLists, regular : StatusLists, phase : Phases,
     message : PodMessages]

\* process_container_statuses returned None
NoResult == [status |-> "None", cmsg |-> "", pmsg |-> ""]

\* line 56
PodMessage(st) == IF st.message = "None" THEN "" ELSE st.message

\* lines 60-95: what the body of the for loop does with one container: it
\* breaks out of the loop ("break") or returns a triple
OneContainer(c, init_containers, pod_message) ==
    IF c.state = "terminated"
    THEN IF init_containers /\ c.reason = "Completed"
         THEN [do |-> "break", result |-> NoResult]
         ELSE [do |-> "return",
               result |-> [status |-> c.reason, cmsg |-> c.message,
                           pmsg |-> pod_message]]
    ELSE IF c.state = "waiting"
    THEN [do |-> "return",
          result |-> [status |-> c.reason, cmsg |-> c.message,
                      pmsg |-> pod_message]]
    ELSE IF c.state = "running" /\ c.ready
    THEN [do |-> "return",
          result |-> [status |-> "Running", cmsg |-> "", pmsg |-> pod_message]]
    ELSE [do |-> "return",
          result |-> [status |-> "Pending", cmsg |-> "", pmsg |-> pod_message]]

\* lines 58-97 with the Completed init container passed over (continue)
RECURSIVE ProcessContainerStatusesContinuing(_, _, _, _)
ProcessContainerStatusesContinuing(cs, i, init_containers, pod_message) ==
    IF i > Len(cs)
    THEN NoResult
    ELSE LET step == OneContainer(cs[i], init_containers, pod_message)
         IN IF step.do = "break"
            THEN ProcessContainerStatusesContinuing(cs, i + 1, init_containers,
                                                    pod_message)
            ELSE step.result

\* lines 58-97: the for loop from the container at i on; break leaves the
\* loop and the function falls off its end, the else of the for returns None
RECURSIVE ProcessContainerStatuses(_, _, _, _)
ProcessContainerStatuses(cs, i, init_containers, pod_message) ==
    IF i > Len(cs)
    THEN NoResult
    ELSE LET step == OneContainer(cs[i], init_containers, pod_message)
         IN IF step.do = "break"
            THEN NoResult
            ELSE step.result

\* lines 99-114
DetermineStatusFromK8s(st) ==
    LET pod_message == PodMessage(st)
        fromInit == IF st.init.given
                    THEN ProcessContainerStatuses(st.init.items, 1, TRUE,
                                                  pod_message)
                    ELSE NoResult
        fromRegular == IF st.regular.given
                       THEN ProcessContainerStatuses(st.regular.items, 1, FALSE,
                                                     pod_message)
                       ELSE NoResult
    IN IF fromInit # NoResult THEN fromInit
       ELSE IF fromRegular # NoResult THEN fromRegular
       ELSE [status |-> st.phase, cmsg |-> "", pmsg |-> pod_message]

DsInit ==
    /\ ds_in \in PodStatuses
    /\ ds_out = NoResult

DsIdle ==
    /\ ds_in = [init |-> [given |-> FALSE, items |-> <<>>],
                regular |-> [given |-> FALSE, items |-> <<>>],
                phase |-> "Pending", message |-> "None"]
    /\ ds_out = NoResult

\* determine_status_from_k8s is called on the pod status
DetermineStatus ==
    /\ ds_out = NoResult
    /\ ds_out' = DetermineStatusFromK8s(ds_in)
    /\ UNCHANGED ds_in
    /\ UNCHANGED <<httpVars, sdVars, qVars, elVars, prVars, suVars, csVars, hpVars, nxVars>>

DsNext == DetermineStatus

-----------------------------------------------------------------------------
(* The dicts behind status_data and the queue, by identity *)

\* Python hands dicts around by reference: a write through one holder is seen
\* by every holder of the same dict.  Here each dict has an identity, the
\* reducer's map and the queue hold identities, and a write in place changes
\* the one dict stored under that identity.

NoDict == 0

\* the status stored: the one whose records take the probing path (which dict
\* holds a value does not depend on the value)
DictStatuses == {"Running"}

\* what process() may have written into rec["curl-probe"]
CurlProbes == ProbeResults \cup {"none"}

\* the release of status_data with the greatest event-ts (get_latest_release)
LatestDict(map, obj) ==
    CHOOSE r \in Releases :
        /\ map[r] # NoDict
        /\ \A o \in Releases :
              map[o] # NoDict => obj[map[o]].event_ts <= obj[map[r]].event_ts

\* a variant that hands out the dict status_data holds
StatusRecordDictShared(held, fresh) == held

\* get_status_record() (not in the source tree) returns a snapshot by value:
\* a dict of its own, never the one status_data holds
StatusRecordDict(held, fresh) == fresh

\* one turn of the watch loop for a pod of `release`: update() stores a new
\* dict when update_or_create_status takes the event (`stored`), then writes
\* the messages into the dict of the release in place; get_status_record()
\* gives the record and add() puts that very object on the queue
DictEvent(release, status, msg, stored) ==
    /\ hp_n < MaxDicts
    /\ stored \/ hp_map[release] # NoDict
    /\ LET made == [release |-> "", status |-> status, event_ts |-> hp_n + 1,
                     msg |-> "", probe |-> "none", deadline |-> FALSE]
           afterStore == IF stored THEN Append(hp_obj, made) ELSE hp_obj
           id == IF stored THEN Len(hp_obj) + 1 ELSE hp_map[release]
           map == [hp_map EXCEPT ![release] = id]
           afterMsg == [afterStore EXCEPT ![id].msg = msg]
           latest == LatestDict(map, afterMsg)
           rec == StatusRecordDict(map[latest], Len(afterMsg) + 1)
       IN /\ hp_map' = map
          /\ hp_obj' = IF rec = Len(afterMsg) + 1
                          THEN Append(afterMsg,
                                      [afterMsg[map[latest]] EXCEPT !.release = latest])
                          ELSE afterMsg
          /\ hp_q' = Append(hp_q, rec)
    /\ hp_n' = hp_n + 1
    /\ UNCHANGED <<httpVars, sdVars, qVars, elVars, prVars, suVars, csVars, dsVars, nxVars>>

\* one turn of process(): the record at the head is taken; on the probing path
\* rec["_deadline"] is set and, when a probe is made, rec["curl-probe"] is
\* written, both in place; the record goes back to the queue or is POSTed
DictProcess(gated, pr, requeue) ==
    /\ hp_q # <<>>
    /\ gated \/ pr = "none"
    /\ LET id == Head(hp_q)
       IN /\ hp_obj' = IF gated
                          THEN [hp_obj EXCEPT ![id].deadline = TRUE,
                                              ![id].probe = IF pr = "none" THEN @ ELSE pr]
                          ELSE hp_obj
          /\ hp_q' = IF requeue THEN Append(Tail(hp_q), id) ELSE Tail(hp_q)
    /\ UNCHANGED <<hp_map, hp_n>>
    /\ UNCHANGED <<httpVars, sdVars, qVars, elVars, prVars, suVars, csVars, dsVars, nxVars>>

HpIdle ==
    /\ hp_obj = <<>>
    /\ hp_map = [r \in Releases |-> NoDict]
    /\ hp_q = <<>>
    /\ hp_n = 0

HpNext ==
    \/ \E r \in Releases, st \in DictStatuses, m \in Msgs, stored \in BOOLEAN :
          DictEvent(r, st, m, stored)
    \/ \E gated \in BOOLEAN, pr \in CurlProbes, requeue \in BOOLEAN :
          DictProcess(gated, pr, requeue)

-----------------------------------------------------------------------------
(* status_queue.py : the NotFound counter of one gated Deleted record *)

\* line 31: NXDOMAIN_CONFIRMATION_COUNT is read from the environment
ConfirmCounts == 1..MaxConfirm

\* the passes follow one another at the interval of Deleted probes
NxNow == DELETED_PROBE_INTERVAL * Len(nx_hist)

NxInit ==
    /\ nx_count \in ConfirmCounts
    /\ nx_rec = AddedRecord(1, "r1", "Deleted", 0)
    /\ nx_hist = <<>>
    /\ nx_posted = FALSE

NxIdle ==
    /\ nx_count = NXDOMAIN_CONFIRMATION_COUNT
    /\ nx_rec = AddedRecord(1, "r1", "Deleted", 0)
    /\ nx_hist = <<>>
    /\ nx_posted = FALSE

\* lines 142-174: a pass of process() that takes the record inside its window
\* when a probe is due, and probes
NxPass(pr) ==
    /\ ~nx_posted
    /\ Len(nx_hist) < MaxProbes
    /\ LET due == [nx_rec EXCEPT !.deadline = EnsureDeadline(nx_rec, "deleted")]
           done == AfterProbeWith(due, "deleted", pr, NxNow, nx_count)
       IN /\ due.deadline # Absent
          /\ NxNow < due.deadline
          /\ AllowProbeNow(due, NxNow)
          /\ nx_rec' = done.rec
          /\ nx_posted' = ~done.requeue
    /\ nx_hist' = Append(nx_hist, pr)
    /\ UNCHANGED nx_count
    /\ UNCHANGED <<httpVars, sdVars, qVars, elVars, prVars, suVars, csVars, dsVars, hpVars>>

NxNext == \E pr \in ProbeResults : NxPass(pr)

-----------------------------------------------------------------------------
(* The specifications *)

\* one call of _request, everything else at rest
InitRequest == HttpInit /\ SdIdle /\ QIdle /\ ElIdle /\ PrIdle /\ SuIdle
    /\ CsIdle /\ DsIdle /\ HpIdle /\ NxIdle

SpecRequest == InitRequest /\ [][HttpNext]_vars

\* the reducer fed with events, everything else at rest
InitReducer == SdInit /\ HttpIdle /\ QIdle /\ ElIdle /\ PrIdle /\ SuIdle
    /\ CsIdle /\ DsIdle /\ HpIdle /\ NxIdle

SpecReducer == InitReducer /\ [][SdNext]_vars

\* the egress queue and its consumer thread, everything else at rest
InitQueue == QInit /\ HttpIdle /\ SdIdle /\ ElIdle /\ PrIdle /\ SuIdle
    /\ CsIdle /\ DsIdle /\ HpIdle /\ NxIdle

SpecQueue == InitQueue /\ [][QNext]_vars

\* the watch thread: listen() with the reducer it updates and the queue it
\* adds to
InitListen == ElInit /\ SdInit /\ QIdle /\ HttpIdle /\ PrIdle /\ SuIdle
    /\ CsIdle /\ DsIdle /\ HpIdle /\ NxIdle

SpecListen == InitListen /\ [][ElNext]_vars

\* the watch thread on a quiet watch: what listen() hands to the queue
InitPublish == ElInit /\ SdInit /\ QIdle /\ HttpIdle /\ PrIdle /\ SuIdle
    /\ CsIdle /\ DsIdle /\ HpIdle /\ NxIdle

SpecPublish == InitPublish /\ [][PublishNext]_vars

\* the egress queue over a Running window: the clock advances while a record
\* waits, and the consumer thread keeps taking records until it is stopped
InitQueueRunning == QInitRunning /\ HttpIdle /\ SdIdle /\ ElIdle /\ PrIdle /\ SuIdle
    /\ CsIdle /\ DsIdle /\ HpIdle /\ NxIdle

SpecQueueRunning ==
    /\ InitQueueRunning
    /\ [][QNextRunning]_vars
    /\ WF_vars(\E d \in WindowTickSteps : QTickRunning(d))
    /\ WF_vars(\E pr \in WindowProbeResults : Process(pr))

\* one call of probe_url, with the GET it makes
InitProbe == PrInit /\ HttpInit /\ SdIdle /\ QIdle /\ ElIdle /\ SuIdle
    /\ CsIdle /\ DsIdle /\ HpIdle /\ NxIdle

SpecProbe == InitProbe /\ [][PrNext]_vars

\* setup() called up to MaxSetups times, then listen()
InitSetup == SuInit /\ HttpInit /\ SdIdle /\ QIdle /\ ElIdle /\ PrIdle
    /\ CsIdle /\ DsIdle /\ HpIdle /\ NxIdle

SpecSetup == InitSetup /\ [][SuNext]_vars

\* determine_status_from_k8s applied to every pod status within the bounds
InitStatus == DsInit /\ HttpIdle /\ SdIdle /\ QIdle /\ ElIdle /\ PrIdle /\ SuIdle
    /\ CsIdle /\ HpIdle /\ NxIdle

SpecStatus == InitStatus /\ [][DsNext]_vars

\* process() statement by statement beside the thread that adds records and
\* stops the queue, with a prober and "running" in APP_PROBE_STATUSES; the
\* consumer thread keeps being scheduled
InitConsumer == QInitRunning /\ CsInit /\ HttpIdle /\ SdIdle /\ ElIdle /\ PrIdle /\ SuIdle
    /\ DsIdle /\ HpIdle /\ NxIdle

SpecConsumer == InitConsumer /\ [][CsNext]_vars /\ WF_vars(CsStep)

\* one gated Deleted record probed pass after pass, for each confirmation count
InitConfirm == NxInit /\ HttpIdle /\ SdIdle /\ QIdle /\ ElIdle /\ PrIdle /\ SuIdle
    /\ CsIdle /\ DsIdle /\ HpIdle

SpecConfirm == InitConfirm /\ [][NxNext]_vars

\* the watch loop and the consumer with the dicts they share or do not share
InitDicts == HpIdle /\ HttpIdle /\ SdIdle /\ QIdle /\ ElIdle /\ PrIdle /\ SuIdle
    /\ CsIdle /\ DsIdle /\ NxIdle

SpecDicts == InitDicts /\ [][HpNext]_vars

-----------------------------------------------------------------------------
(* Claims about the reducer *)

\* e is older than the record stored for its release and carries no deletion
Stale(e) ==
    /\ e.deletion = NoDeletion
    /\ sd[e.release] # NoRec
    /\ e.creation < sd[e.release].creation

\* C5: reducing an event whose creation timestamp is strictly older than the
\* stored one and that carries no deletion timestamp leaves the whole status
\* map as it was (status, timestamps, event-ts, pod-msg and container-msg of
\* every release).
C5_StaleEventChangesNothing ==
    [][\A e \in Events : (Stale(e) /\ Update(e, 0)) => sd' = sd]_vars

\* C6: the stored creation timestamp of a release is the greatest creation
\* timestamp among all the events processed for it so far.
C6_CreationIsMaxOfAll ==
    \A r \in Releases : sd[r] # NoRec => sd[r].creation = sd_maxSeen[r]

\* C6 as amended: the stored creation timestamp of a release is the greatest
\* creation timestamp among the events processed for it since, and
\* including, the last one that carried a deletion timestamp (among all of
\* them if none did).
C6_CreationIsMaxSinceDeletion ==
    \A r \in Releases : sd[r] # NoRec => sd[r].creation = sd_maxSinceDel[r]

\* a deletion event of an older pod has lowered the stored creation timestamp
C6_Witness ==
    \E r \in Releases :
        /\ sd[r] # NoRec
        /\ sd[r].creation = sd_maxSinceDel[r]
        /\ sd[r].creation < sd_maxSeen[r]

\* C8: with an orchestrator client, an event whose deletion timestamp is newer
\* than the stored creation timestamp sets the status to Deleted when at
\* most one pod remains; otherwise the deletion is cleared and the record
\* keeps the status it had before the event.
C8_OtherPodsKeepPriorStatus ==
    [][\A e \in Events, pods \in PodCounts :
          (/\ sd_client
           /\ sd[e.release] # NoRec
           /\ e.deletion # NoDeletion
           /\ e.deletion > sd[e.release].creation
           /\ Update(e, pods))
          => IF pods <= 1
             THEN sd'[e.release].status = "Deleted"
             ELSE /\ sd'[e.release].deletion = NoDeletion
                  /\ sd'[e.release].status = sd[e.release].status]_vars

-----------------------------------------------------------------------------
(* Claims about _request *)

AuthFailure(o) == o.exc = "none" /\ o.code \in {401, 403}

\* the 1-based position of the first 401/403 response of the call, 0 if none
FirstAuthFailure ==
    IF \E k \in 1..Len(rq_out) : AuthFailure(rq_out[k])
    THEN CHOOSE k \in 1..Len(rq_out) :
            /\ AuthFailure(rq_out[k])
            /\ \A j \in 1..(k - 1) : ~AuthFailure(rq_out[j])
    ELSE 0

Refreshes == {h \in 1..Len(rq_hooks) : rq_hooks[h].at = "refresh"}

\* C3: in a finished call that was given a token_fetcher, wherever the first
\* 401/403 response falls in the schedule, the hook is called once for it,
\* the next request of the call carries the token it returned, and a later
\* 401/403 is returned as it is without a second refresh.
C3_RefreshThenRetry ==
    (/\ rq_pc = "done"
     /\ rq_cfg.fetcher
     /\ FirstAuthFailure > 0
     /\ \A h \in Refreshes : rq_hooks[h].got = "token")
    => /\ Cardinality(Refreshes) = 1
       /\ Len(rq_sent) > FirstAuthFailure
       /\ \A h \in Refreshes : rq_sent[FirstAuthFailure + 1] = rq_hooks[h].tok
       /\ \A j \in (FirstAuthFailure + 1)..Len(rq_out) :
             AuthFailure(rq_out[j])
                => j = Len(rq_out) /\ rq_result = Resp(rq_out[j].code)

\* C9: a call with a non-empty backoff schedule never propagates an
\* exception to its caller.
C9_NeverRaises == rq_cfg.len > 0 => rq_result # Raised

\* C10: a transport error raised by an attempt that is not the last of the
\* schedule is followed by a sleep of the scheduled delay and a further
\* attempt; the call does not end there.
C10_TransportErrorRetried ==
    \A k \in 1..Len(rq_out) :
        (rq_out[k].exc \in TransportErrors /\ k < rq_cfg.len)
            => /\ rq_pc # "done" \/ Len(rq_out) > k
               /\ \E s \in 1..Len(rq_sleeps) : rq_sleeps[s] = k - 1

\* the attempt numbered k got a response of the 5xx class
ServerError(o) == o.exc = "none" /\ o.code >= 500 /\ o.code < 600

Success(o) == o.exc = "none" /\ o.code >= 200 /\ o.code < 300

\* C11: when every response is 5xx the call makes exactly
\* len(backoff_seconds) attempts and returns the last 5xx response, not
\* None; a 2xx that follows a 5xx is returned without a further attempt.
C11_ServerErrorsUseWholeSchedule ==
    /\ (/\ rq_pc = "done"
        /\ Len(rq_out) > 0
        /\ \A k \in 1..Len(rq_out) : ServerError(rq_out[k]))
       => /\ Len(rq_out) = rq_cfg.len
          /\ rq_result = Resp(rq_out[Len(rq_out)].code)
    /\ \A k \in 2..Len(rq_out) :
          (ServerError(rq_out[k - 1]) /\ Success(rq_out[k]))
             => /\ k = Len(rq_out)
                /\ rq_pc = "done"
                /\ rq_result = Resp(rq_out[k].code)

\* a call over a schedule of several delays that met a 5xx on every attempt
C11_Witness ==
    /\ rq_pc = "done"
    /\ rq_cfg.len >= 2
    /\ Len(rq_out) = rq_cfg.len
    /\ \A k \in 1..Len(rq_out) : ServerError(rq_out[k])

\* C12: sleep_fn is called only between two attempts: when the call has
\* ended after responses only (5xx, or 401/403 with a token_fetcher that
\* answers, at any position), the sleeps number the attempts minus one.
C12_SleepsOnlyBetweenAttempts ==
    (/\ rq_pc = "done"
     /\ Len(rq_out) > 0
     /\ \A k \in 1..Len(rq_out) : rq_out[k].exc = "none"
     /\ \A h \in 1..Len(rq_hooks) : rq_hooks[h].got \in {"token", "empty"})
    => Len(rq_sleeps) = Len(rq_out) - 1

\* C13: when the first response is 2xx, 400 or 404 the call makes that one
\* attempt, returns the response and does not sleep.
C13_NoRetryOnSuccessOrClientError ==
    (/\ Len(rq_out) > 0
     /\ rq_out[1].exc = "none"
     /\ rq_out[1].code \in {200, 400, 404})
    => /\ Len(rq_out) = 1
       /\ rq_pc = "done"
       /\ rq_result = Resp(rq_out[1].code)
       /\ rq_sleeps = <<>>

\* a call over a schedule of several delays whose first response was a 404
C13_Witness ==
    /\ rq_pc = "done"
    /\ rq_cfg.len >= 2
    /\ Len(rq_out) = 1
    /\ rq_out[1] = [exc |-> "none", code |-> 404]

-----------------------------------------------------------------------------
(* Claims on the egress queue *)

Posted == {q_posted[i] : i \in 1..Len(q_posted)}

Waiting == {q[i] : i \in 1..Len(q)}

IsDeleted(rec) == Lower(rec.status) = "deleted"

\* C1: a record whose status is Deleted is POSTed only if (a) the prober
\* answered NotFound NXDOMAIN_CONFIRMATION_COUNT times in a row inside the
\* deleted window, or (b) probing is disabled for it and it is at least 30 s
\* old, or (c) its probe window has elapsed; for every setting of the prober
\* and of APP_PROBE_STATUSES, and for probed and unprobed app types.
C1_DeletedOnlyWhenConfirmed ==
    \A p \in Posted :
        IsDeleted(p.rec) =>
            \/ p.rec.g_nf >= NXDOMAIN_CONFIRMATION_COUNT
            \/ /\ ~ProbeEnabledFor(p.rec, q_cfg)
               /\ p.at - p.rec.event_ts >= DELETED_GRACE
            \/ p.at >= p.rec.event_ts + DELETED_PROBE_WINDOW

\* the position of the record numbered id in the dispatch log, 0 if it has
\* not been dispatched
PostedAt(id) ==
    IF \E i \in 1..Len(q_posted) : q_posted[i].rec.id = id
    THEN CHOOSE i \in 1..Len(q_posted) : q_posted[i].rec.id = id
    ELSE 0

\* the records added so far, as they are now
Known == Waiting \cup {p.rec : p \in Posted}

\* C2 as stated: of two records of one release added in the order a, b, the
\* POST for b is never dispatched before the POST for a, whatever requeues
\* happen in between.
C2_PerReleaseOrder ==
    \A a \in Known, b \in Known :
        (a.release = b.release /\ a.id < b.id /\ PostedAt(b.id) # 0) =>
            (PostedAt(a.id) # 0 /\ PostedAt(a.id) < PostedAt(b.id))

\* C2, amended: of two records of one release added in the order a, b, the
\* POST for b is never dispatched before the POST for a unless a has been
\* requeued by the probing or grace path; requeues of b never let it pass a.
C2_PerReleaseOrderUnlessRequeued ==
    \A a \in Known, b \in Known :
        (a.release = b.release /\ a.id < b.id /\ PostedAt(b.id) # 0
           /\ ~a.g_requeued) =>
            (PostedAt(a.id) # 0 /\ PostedAt(a.id) < PostedAt(b.id))

\* two records of one release, both dispatched; the first was never requeued,
\* the second was
C2_Witness ==
    \E a \in Known, b \in Known :
        /\ a.release = b.release
        /\ a.id < b.id
        /\ ~a.g_requeued
        /\ b.g_requeued
        /\ PostedAt(a.id) # 0
        /\ PostedAt(b.id) # 0

\* C7: with probing of deleted enabled and the prober answering Running on
\* every probe of the release's URL, the record of the old pod's termination
\* is never POSTed with new-status Deleted.
C7_DeletedSuppressedWhileRunning ==
    \A p \in Posted :
        ~ (/\ IsDeleted(p.rec)
           /\ ProbeEnabledFor(p.rec, q_cfg)
           /\ p.rec.g_probed
           /\ p.rec.g_allRunning)

-----------------------------------------------------------------------------
(* Claims on the watch loop *)

\* C4: when the watch raises an API error with status 410, listen() clears
\* the stored resource version and leaves the retry counter as it was, and
\* the next watch stream is opened with the version of a pod list made after
\* the error.
C4_GoneRestartsFromFreshList ==
    /\ [][WatchRaises(Gone) =>
            (el_rv' = NoVersion /\ el_retries' = el_retries)]_vars
    /\ [](el_open.afterGone => (el_open.fresh /\ el_open.rv # NoVersion))

\* a stream is open that was opened after a 410 with the version of a pod
\* list made when events had already been seen: only a 410 raised by the
\* watch clears a version that events have set
C4_Witness ==
    /\ el_pc = "stream"
    /\ el_open.afterGone
    /\ el_open.fresh
    /\ el_open.rv > 1

\* the exceptions that count as a retry: a protocol error, an API error
\* other than 410, a value error
Counted(exc) ==
    \/ exc.kind \in {"ProtocolError", "ValueError"}
    \/ exc.kind = "ApiException" /\ exc.status # 410

Uncounted(exc) == exc = Gone \/ exc.kind = "NetworkError"

\* the step is one of WatchEvent: the stream handed an event to the reducer
EventReduced == el_pc = "stream" /\ sd_n' = sd_n + 1

\* C15: the retry counter goes up by exactly one on each protocol error,
\* each API error other than 410 and each value error; an API 410, a
\* network error, the natural end of the stream and a processed event leave
\* it as it is.
C15_RetriesCountedByClass ==
    [][/\ \A exc \in Exceptions :
             (ListRaises(exc) \/ WatchRaises(exc)) =>
                 /\ Counted(exc) => el_retries' = el_retries + 1
                 /\ Uncounted(exc) => el_retries' = el_retries
       /\ WatchEnds => el_retries' = el_retries
       /\ EventReduced => el_retries' = el_retries]_vars

\* the loop has counted retries and has also come through an event, a 410
\* and the end of a stream
C15_Witness ==
    /\ el_retries >= 2
    /\ sd_n > 0
    /\ el_open.afterGone
    /\ el_pc = "loop"

\* C16: when listen() has returned after starting the egress consumer,
\* stop_processing() has been called on the queue; and once the retry
\* counter has reached max_retries no watch is open.
C16_StopsQueueOnReturn ==
    /\ (el_pc = "done" /\ el_thread) => q_stop
    /\ el_retries >= max_retries => el_pc # "stream"

\* listen() has returned because the retries were used up
C16_Witness ==
    /\ el_pc = "done"
    /\ el_thread
    /\ el_retries = max_retries
    /\ q_stop


-----------------------------------------------------------------------------
(* Claims on the availability probe *)

\* what the server answered last to the GET of the probe, NoCode when the
\* last attempt ended in a transport error
LastAnswer ==
    IF rq_out = <<>> \/ rq_out[Len(rq_out)].exc # "none"
    THEN NoCode
    ELSE rq_out[Len(rq_out)].code

-----------------------------------------------------------------------------
(* Claims on the Running probe window *)

\* the record passes the probing gate as a Running record
GatedRunning(rec) == Lower(rec.status) = "running" /\ ProbeEnabledFor(rec, q_cfg)

\* the gated Running record with this id waits in the queue
WaitingRunning(id) ==
    \E k \in 1..Len(q) : q[k].id = id /\ GatedRunning(q[k])

PostedTimes(id) == {k \in 1..Len(q_posted) : q_posted[k].rec.id = id}

\* a deadline, once stored in a record, stays what it is while the record is
\* requeued and probed
DeadlineKept ==
    \A k \in 1..Len(q), j \in 1..Len(q') :
        (q[k].id = q'[j].id /\ q[k].deadline # Absent)
            => q'[j].deadline = q[k].deadline

\* what has been POSTed of gated Running records
RunningPostedAtDeadline ==
    /\ \A k \in 1..Len(q) :
          (GatedRunning(q[k]) /\ q[k].deadline # Absent)
              => q[k].deadline = q[k].event_ts + 180
    /\ \A k \in 1..Len(q_posted) :
          GatedRunning(q_posted[k].rec) =>
              /\ q_posted[k].rec.status = "Running"
              /\ q_posted[k].rec.deadline = q_posted[k].rec.event_ts + 180
              /\ q_posted[k].rec.probe # "Running"
                     => q_posted[k].at >= q_posted[k].rec.deadline
              /\ Cardinality(PostedTimes(q_posted[k].rec.id)) = 1

\* C17: a Running record that passes the probing gate and whose probe never
\* returns Running is requeued until its deadline, event_ts + 180 s, and is
\* then POSTed exactly once with new-status Running, provided time advances
\* and the consumer is not stopped; the deadline is fixed at first handling
\* and is not extended by requeues or probes.
C17_RunningPostedOnceAtDeadline ==
    /\ [][DeadlineKept]_vars
    /\ []RunningPostedAtDeadline
    /\ \A id \in 1..(MaxAdds + 1) :
          WaitingRunning(id) ~> (PostedTimes(id) # {} \/ q_stop)

\* a gated Running record, probed without ever being found Running, requeued,
\* and POSTed when its window had elapsed
C17_Witness ==
    \E k \in 1..Len(q_posted) :
        /\ GatedRunning(q_posted[k].rec)
        /\ q_posted[k].rec.g_requeued
        /\ q_posted[k].rec.g_probed
        /\ q_posted[k].rec.probe = "Unknown"
        /\ q_posted[k].at = q_posted[k].rec.event_ts + 180

-----------------------------------------------------------------------------
(* Claims on setup() *)

\* the ping of the setup() call in progress got no response or a status
\* other than 200
PingFailed ==
    \/ su_run.ping.kind \in {"None", "raised"}
    \/ su_run.ping.kind = "resp" /\ su_run.ping.code # 200

\* C18: if the ping GET returns no response or a status other than 200,
\* setup() leaves setup_complete false without initialising the orchestrator
\* client or fetching a token, and a following listen() opens no watch stream
\* and starts no consumer thread.
C18_FailedPingRefusesToStart ==
    PingFailed =>
        /\ su_pc = "done"
        /\ ~el_setup
        /\ ~su_run.client
        /\ ~su_run.fetched /\ su_run.resp = Pending
        /\ su_token = su_run.tokenBefore
        /\ el_pc # "idle" =>
              el_pc = "done" /\ ~el_thread /\ el_open = NotOpened /\ ~q_stop

\* listen() has returned after a setup() whose ping was answered 404
C18_Witness ==
    /\ su_run.ping.kind = "resp"
    /\ su_run.ping.code = 404
    /\ su_pc = "done"
    /\ el_pc = "done"

\* C19: availability checks are optional at startup: if constructing the
\* prober fails during setup(), the prober is set to null, the egress queue is
\* still constructed and setup_complete becomes true.
C19_ProberIsOptional ==
    (su_pc = "done" /\ su_run.prober = "TypeError") =>
        ~su_prober /\ su_queue /\ el_setup

\* C20: fetch_token() returns a token and stores it in self.token only when
\* the token endpoint answers 200 with a JSON body holding a non-empty string
\* token; in every other case it raises and leaves self.token unchanged, and
\* setup_complete stays false.
C20_TokenOnlyFromGoodAnswer ==
    su_run.out # "none" =>
        /\ su_run.out = "token"
              <=> (su_run.resp = Resp(200) /\ su_run.body = "token")
        /\ su_run.out = "token" =>
              su_token = su_issued /\ su_token # su_run.tokenBefore
        /\ su_run.out # "token" =>
              /\ su_token = su_run.tokenBefore
              /\ su_run.prober = "none"
              /\ ~el_setup /\ ~su_queue

\* a second setup() whose token endpoint answered 200 with an empty token:
\* the token of the first setup() is still the one stored
C20_Witness ==
    /\ su_run.out = "KeyError"
    /\ su_run.resp = Resp(200)
    /\ su_run.body = "empty"
    /\ su_run.tokenBefore # NoToken
    /\ su_token = su_run.tokenBefore

-----------------------------------------------------------------------------
(* Claims on malformed and unexpected events *)

\* C21: update() with a pod that carries a deletion timestamp, for a release
\* that has no stored record yet, completes without raising and creates a
\* record for that release holding the derived status.
C21_DeletionOfUnknownReleaseCreatesRecord ==
    [][\A e \in Events, pods \in PodCounts :
          (/\ Update(e, pods)
           /\ sd[e.release] = NoRec
           /\ e.deletion # NoDeletion)
              => /\ ~sd_raised'
                 /\ sd'[e.release] # NoRec
                 /\ sd'[e.release].status = e.status]_vars

\* C25: a malformed event (no object, a pod without labels, a pod status
\* with missing sub-fields) is skipped: the reducer does not raise, listen()
\* keeps watching and the egress queue is not stopped.
C25_MalformedEventIsSkipped ==
    [][\A kind \in MalformedKinds :
          WatchMalformed(kind) =>
              /\ ~sd_raised'
              /\ el_pc' = "stream"
              /\ ~q_stop'
              /\ sd' = sd]_vars

-----------------------------------------------------------------------------
(* Claims on what the watch loop publishes *)

\* the record the step has put on the queue
Published == q'[Len(q')]

\* the step has put a record on the queue
Publishes == Len(q') = Len(q) + 1

\* the reducer drops e: the event is older than the record stored
Dropped(e) ==
    sd[e.release] # NoRec /\ ~ShouldUpdate(sd[e.release], e.creation, e.deletion)

\* C23: after each watch event is reduced, the record added to the egress
\* queue is the record of the release that the event belongs to, also for an
\* event the reducer drops as stale.
C23_PublishesRecordOfEventsRelease ==
    [][\A e \in PublishEvents, pods \in PodCounts :
          (WatchAnyEvent(e, pods) /\ ~sd_raised') =>
              /\ Publishes
              /\ Published.release = e.release
              /\ Published.status = sd'[e.release].status
              /\ Published.event_ts = sd'[e.release].event_ts]_vars

\* C26: an event that leaves the reduced state of its release unchanged
\* (dropped by the reducer) causes no record to be enqueued, so the same
\* reduced state of a release is never enqueued twice.
C26_DroppedEventPublishesNothing ==
    [][\A e \in PublishEvents, pods \in PodCounts :
          (WatchAnyEvent(e, pods) /\ Dropped(e)) => q' = q]_vars

-----------------------------------------------------------------------------
(* Claims on the derivation of the status *)

\* the algorithm of the specification on one list: a Completed init container
\* is passed over and the next one examined; the first other container decides
RECURSIVE Decided(_, _, _, _)
Decided(cs, i, skipCompleted, pod_message) ==
    IF i > Len(cs) THEN NoResult
    ELSE IF cs[i].state = "terminated"
    THEN IF skipCompleted /\ cs[i].reason = "Completed"
         THEN Decided(cs, i + 1, skipCompleted, pod_message)
         ELSE [status |-> cs[i].reason, cmsg |-> cs[i].message,
               pmsg |-> pod_message]
    ELSE IF cs[i].state = "waiting"
    THEN [status |-> cs[i].reason, cmsg |-> cs[i].message, pmsg |-> pod_message]
    ELSE IF cs[i].state = "running" /\ cs[i].ready
    THEN [status |-> "Running", cmsg |-> "", pmsg |-> pod_message]
    ELSE [status |-> "Pending", cmsg |-> "", pmsg |-> pod_message]

Specified(st) ==
    LET pod_message == IF st.message = "None" THEN "" ELSE st.message
        fromInit == Decided(st.init.items, 1, TRUE, pod_message)
        fromRegular == Decided(st.regular.items, 1, FALSE, pod_message)
    IN IF fromInit # NoResult THEN fromInit
       ELSE IF fromRegular # NoResult THEN fromRegular
       ELSE [status |-> st.phase, cmsg |-> "", pmsg |-> pod_message]

\* C22: determine_status_from_k8s returns the triple of the specified
\* algorithm: init containers are examined in order, one terminated with
\* reason Completed is skipped and the next init container is examined, the
\* first other init container decides; if none decides, the first regular
\* container decides by the same rules without the Completed skip; otherwise
\* the result is (phase, empty message, pod message).
C22_StatusIsTheSpecifiedOne ==
    ds_out # NoResult => ds_out = Specified(ds_in)

-----------------------------------------------------------------------------
(* Claims on the snapshots the queue holds *)

\* a watch event was handled in this step
DictReduced == hp_n' = hp_n + 1

\* C24: the queue works on snapshots by value: a turn of the watch loop leaves
\* every record already on the queue as it was, and a turn of process(), with
\* whatever it writes on the record it took, leaves status_data and its dicts
\* as they were.
C24_QueueHoldsSnapshots ==
    [][/\ DictReduced =>
            \A i \in 1..Len(hp_q) : hp_obj'[hp_q[i]] = hp_obj[hp_q[i]]
       /\ ~DictReduced =>
            /\ hp_map' = hp_map
            /\ \A r \in Releases :
                  hp_map[r] # NoDict => hp_obj'[hp_map[r]] = hp_obj[hp_map[r]]]_vars

\* a record of a release was enqueued, the reducer has since written a message
\* into the dict of that release, and process() has written a probe result and
\* a deadline on the record
C24_Witness ==
    \E i \in 1..Len(hp_q) :
        LET rec == hp_obj[hp_q[i]]
        IN /\ rec.release # ""
           /\ rec.probe # "none" /\ rec.deadline
           /\ hp_obj[hp_map[rec.release]].msg # rec.msg
           /\ hp_obj[hp_map[rec.release]].probe = "none"

-----------------------------------------------------------------------------
(* Claims on the consumer's loop *)

\* process() is over: it returned, or an exception left it
Ended == cs_pc \in {"returned", "raised"}

\* C27: after stop_processing() process() comes to its end.  At most one
\* record is taken from the queue after the flag was set (the poll or the
\* record in hand when it was set), also when every record taken is requeued;
\* once process() has returned nothing is taken or POSTed any more; and the
\* only end other than a return is an exception that http_post let pass.
C27_StopEndsProcess ==
    /\ [](cs_late <= 1)
    /\ [](cs_pc = "raised" => cs_out[Len(cs_out)] = Raised)
    /\ [][cs_pc = "returned" =>
             (cs_pc' = "returned" /\ q' = q /\ q_posted' = q_posted)]_vars
    /\ (q_stop ~> Ended)

\* process() has returned although the queue is not empty: the flag was set
\* while a poll was under way, the record that poll took was requeued, and
\* the test of the loop came next
C27_Witness ==
    /\ cs_pc = "returned"
    /\ cs_late = 1
    /\ q # <<>>
    /\ \A i \in 1..Len(q) : q[i].g_requeued

\* http_post gave None or a response with a status of 400 or more
PostFailed(resp) == resp = ReturnedNone \/ (resp.kind = "resp" /\ resp.code >= 400)

\* C28: a record whose POST gave no response, or a response with a status of
\* 400 or more (404 included), is discarded: it is not on the queue again,
\* not in the consumer's hand again, and no other POST is made for it.
C28_FailedPostIsDiscarded ==
    \A i \in 1..Len(cs_out) :
        PostFailed(cs_out[i]) =>
            /\ \A j \in 1..Len(q) : q[j].id # q_posted[i].rec.id
            /\ cs_rec.id # q_posted[i].rec.id
            /\ \A k \in 1..Len(q_posted) :
                  k # i => q_posted[k].rec.id # q_posted[i].rec.id

\* the POST of one record gave None, the POST of the next was answered 404,
\* no record is left and the loop goes on
C28_Witness ==
    /\ Len(cs_out) = 2
    /\ cs_out[1] = ReturnedNone
    /\ cs_out[2] = Resp(404)
    /\ q = <<>>
    /\ cs_pc = "get"

-----------------------------------------------------------------------------
(* Claims on the probing gate *)

\* the consumer takes this record next, it passes the gate as a Running
\* record, and this pass calls the prober for it
ProbedAsRunning(rec) ==
    /\ ~q_stop
    /\ GatedRunning(rec)
    /\ Probes(rec, q_now, q_cfg)

\* the record taken is back at the end of the queue with the answer of the
\* prober written on it, and nothing was POSTed
RequeuedWith(id, pr) ==
    /\ q_posted' = q_posted
    /\ q' # <<>>
    /\ q'[Len(q')].id = id
    /\ q'[Len(q')].probe = pr
    /\ q'[Len(q')].g_requeued

\* C29: a Running record that passes the probing gate is POSTed before its
\* deadline only from a pass in which the prober answered Running for it;
\* an answer of Unknown or NotFound before the deadline requeues the record.
C29_RunningNeedsProbeRunning ==
    /\ [](\A p \in Posted :
            (GatedRunning(p.rec) /\ p.at < p.rec.deadline)
                => (p.rec.g_probed /\ p.rec.probe = "Running"))
    /\ [][\A pr \in {"Unknown", "NotFound"} :
            (/\ q # <<>>
             /\ ProbedAsRunning(q[GetIndex(q)])
             /\ Process(pr))
                => RequeuedWith(q[GetIndex(q)].id, pr)]_vars

\* a gated Running record whose first probe did not answer Running, requeued,
\* and POSTed before its deadline after a probe that answered Running
C29_Witness ==
    \E p \in Posted :
        /\ GatedRunning(p.rec)
        /\ p.rec.g_requeued
        /\ ~p.rec.g_allRunning
        /\ p.rec.probe = "Running"
        /\ p.at < p.rec.deadline

\* the four conditions of the gate, read from the record and the settings
GateConditions(rec) ==
    /\ q_cfg.prober
    /\ Lower(rec.status) \in q_cfg.statuses
    /\ rec.app_type \in APP_PROBE_APPS
    /\ rec.app_url

-----------------------------------------------------------------------------
(* Claims on the legacy grace of Deleted records *)

\* no probing of Deleted records: the prober is absent, or "deleted" is not
\* in APP_PROBE_STATUSES
DeletedProbingOff == ~q_cfg.prober \/ "deleted" \notin q_cfg.statuses

\* C31: when the prober is absent or "deleted" is not in APP_PROBE_STATUSES,
\* a Deleted record is requeued on every pop at which now - event_ts < 30 s
\* and POSTed on the first pop at which now - event_ts >= 30 s, and the
\* prober is never called for it: no such record is POSTed younger than
\* 30 s, none is probed, and none waits requeued at an age of 30 s or more
\* after a pop at that age.
C31_DeletedHeldForLegacyGrace ==
    DeletedProbingOff =>
        /\ \A p \in Posted :
              IsDeleted(p.rec) =>
                  /\ p.at - p.rec.event_ts >= DELETED_GRACE
                  /\ ~p.rec.g_probed
        /\ \A r \in Waiting : IsDeleted(r) => ~r.g_probed /\ r.probe = "none"

-----------------------------------------------------------------------------
(* Claims on the confirmation of Deleted *)

RECURSIVE TrailingNotFound(_)
\* the number of NotFound answers at the end of a history of answers
TrailingNotFound(hist) ==
    IF hist = <<>> \/ hist[Len(hist)] # "NotFound" THEN 0
    ELSE 1 + TrailingNotFound(SubSeq(hist, 1, Len(hist) - 1))

\* _nx_consec as rec.get("_nx_consec", 0) reads it
NxConsec(rec) == IF rec.nx = Absent THEN 0 ELSE rec.nx

\* C32: the NotFound counter of a gated Deleted record counts consecutive
\* answers: it is the number of NotFound answers since the last other answer;
\* and inside the window the record is accepted for the POST exactly at the
\* probe that brings the counter to NXDOMAIN_CONFIRMATION_COUNT.
C32_NotFoundCountedConsecutively ==
    /\ NxConsec(nx_rec) = TrailingNotFound(nx_hist)
    /\ nx_posted <=> (nx_hist # <<>> /\ TrailingNotFound(nx_hist) = nx_count)

\* with a count of 2: NotFound, Unknown, NotFound has not confirmed
C32_Witness ==
    /\ nx_count = 2
    /\ nx_hist = <<"NotFound", "Unknown", "NotFound">>
    /\ ~nx_posted
    /\ nx_rec.nx = 1

-----------------------------------------------------------------------------
(* Claims on the throttle of the probes *)

\* the record passes the gate of the probing path and its window is open
GatedInWindow(rec) ==
    /\ Lower(rec.status) \in {"running", "deleted"}
    /\ ProbeEnabledFor(rec, q_cfg)
    /\ q_now < EnsureDeadline(rec, Lower(rec.status))

\* the next probe of the record is not due yet
Throttled(rec) == rec.next_epoch # Absent /\ q_now < rec.next_epoch

\* the interval between two probes of a record of this status
IntervalOf(rec) == IF Lower(rec.status) = "running" THEN 10 ELSE 5

\* the record went back to the queue as it was: no answer of the prober was
\* written on it and its next probe is due when it was
RequeuedUnprobed(rec) ==
    /\ q_posted' = q_posted
    /\ q' # <<>>
    /\ LET last == q'[Len(q')]
       IN /\ last.id = rec.id
          /\ last.probe = rec.probe
          /\ last.g_probed = rec.g_probed
          /\ last.g_nf = rec.g_nf
          /\ last.nx = rec.nx
          /\ last.next_epoch = rec.next_epoch

\* the record was probed with the answer pr: it was accepted for the POST,
\* or went back to the queue with its next probe one interval from now
ProbedNow(rec, pr) ==
    IF q_posted' # q_posted
    THEN LET sent == q_posted'[Len(q_posted')].rec
         IN sent.id = rec.id /\ sent.g_probed /\ sent.probe = pr
    ELSE /\ q' # <<>>
         /\ LET last == q'[Len(q')]
            IN /\ last.id = rec.id
               /\ last.g_probed
               /\ last.probe = pr
               /\ last.next_epoch = q_now + IntervalOf(rec)

\* C33: probes of one record are throttled.  On a pop of a gated record
\* inside its window the prober is called only when now >= the record's
\* next-probe epoch (or none is set); a probe that does not accept the record
\* sets the epoch to now + 10 s (running) or now + 5 s (deleted); a pop before
\* the epoch requeues the record without a probe.
C33_ProbesAreThrottled ==
    [][\A pr \in ProbeResults :
          (/\ q # <<>>
           /\ GatedInWindow(q[GetIndex(q)])
           /\ Process(pr))
             => IF Throttled(q[GetIndex(q)])
                THEN RequeuedUnprobed(q[GetIndex(q)])
                ELSE ProbedNow(q[GetIndex(q)], pr)]_vars

\* a gated Running record added at 0, probed at 0 and again at 10 when its
\* epoch had come, now at the front of the queue with its next probe due at 20
C33_Witness ==
    /\ q # <<>>
    /\ q_now = 10
    /\ GatedInWindow(q[GetIndex(q)])
    /\ q[GetIndex(q)].status = "Running"
    /\ q[GetIndex(q)].event_ts = 0
    /\ q[GetIndex(q)].g_probed
    /\ q[GetIndex(q)].next_epoch = 20
    /\ Throttled(q[GetIndex(q)])

-----------------------------------------------------------------------------
(* Claims on records of other releases behind a record that is held *)

\* the record needs no gating: it is not Deleted and does not pass the gate
\* of the probing path
Ungated(rec) == ~IsDeleted(rec) /\ ~ProbeEnabledFor(rec, q_cfg)

\* when a pass has requeued the record it took, every record behind it has
\* moved one place forward, in the order it had, and the record is last
MovedBehind ==
    (/\ q # <<>>
     /\ q' # q
     /\ q_posted' = q_posted
     /\ Len(q') = Len(q)
     /\ \E k \in 1..Len(q') : q'[k].id = q[GetIndex(q)].id)
        => /\ q'[Len(q')].id = q[GetIndex(q)].id
           /\ \A k \in 1..(Len(q) - 1) : q'[k] = q[k + 1]

\* the ungated record with this id waits in the queue
WaitingUngated(id) == \E k \in 1..Len(q) : q[k].id = id /\ Ungated(q[k])

-----------------------------------------------------------------------------
(* Claims on the resource version and the retries of the watch loop *)

\* C35: the stored resource version, when one is stored, is that of the event
\* received last, or of the pod list when no event has come since; it is
\* stored before the reducer runs, so also when the reducer raises; the end
\* of a stream, by its timeout or by an error other than a 410 that does not
\* end listen(), leaves the version stored, and the next watch is opened
\* with it, without a pod list.  None is stored only before the first list
\* and after a 410.
C35_VersionFollowsEvents ==
    /\ [](el_rv # NoVersion => el_rv = el_seen)
    /\ [](el_rv = NoVersion => (el_seen = NoVersion \/ el_gone))
    /\ [][(el_pc = "stream" /\ el_pc' = "loop" /\ ~el_gone')
             => (el_rv' = el_rv /\ el_rv' # NoVersion)]_vars
    /\ [][(el_pc = "loop" /\ el_pc' = "stream" /\ el_rv # NoVersion)
             => (el_open'.rv = el_seen /\ ~el_open'.fresh /\ el_rv' = el_rv)]_vars

\* a stream opened without a pod list, with the version of an event, after an
\* error that was counted
C35_Witness ==
    /\ el_pc = "stream"
    /\ ~el_open.fresh
    /\ el_open.rv = el_seen
    /\ el_seen > 1
    /\ sd_n > 0
    /\ el_retries >= 1

\* C36: on an API 410 the watch loop reconnects at once: between the clearing
\* of the resource version and the next pod list no retry delay is slept.
C36_GoneReconnectsWithoutSleep ==
    (el_gone /\ el_rv = NoVersion) => el_slept = 0

\* C37: the retry counter of listen() is never reset or decreased: it only
\* grows, up to max_retries; when it has reached max_retries no event is
\* handled any more, and the loop is left with the egress queue stopped,
\* however many events came through between the errors.
C37_RetriesOnlyAccumulate ==
    /\ [][el_retries' >= el_retries]_vars
    /\ [](el_retries <= max_retries)
    /\ [][el_retries = max_retries =>
             /\ sd_n' = sd_n
             /\ el_retries' = el_retries
             /\ el_pc' # el_pc => (el_pc' = "done" /\ q_stop')]_vars

\* listen() has returned at max_retries counted errors, and events were
\* handled on a stream opened after some of them
C37_Witness ==
    /\ el_pc = "done"
    /\ el_retries = max_retries
    /\ q_stop
    /\ sd_n >= 2
    /\ el_open.rv > 1
    /\ ~el_open.fresh

-----------------------------------------------------------------------------
(* Claims on the token, the end and the bookkeeping of the consumer *)

\* C38: once the token_fetcher has fetched a new token during one http_post
\* call, every later http_post call of process() is given that token in the
\* Authorization header of its first attempt.
C38_LaterPostsSendRefreshedToken ==
    [][(cs_pc = "post" /\ cs_pc' # "post" /\ cs_eltoken # InitialToken)
         => cs_sent' = cs_eltoken]_vars

\* C39: process() ends only after stop_processing() was called: whatever the
\* probe, the POST or the token_fetcher give, the token_fetcher raising
\* included, the loop goes on until then.
C39_LoopEndsOnlyWhenStopped ==
    cs_pc \in {"returned", "raised"} => q_stop

\* the times the record added as the id-th is on the queue
TimesQueued(id) == Cardinality({i \in DOMAIN q : q[i].id = id})

\* the times the record added as the id-th was handed to http_post
TimesPosted(id) == Cardinality({i \in DOMAIN q_posted : q_posted[i].rec.id = id})

\* C40: however add() is interleaved with the consumer, every record added is
\* in exactly one place: once on the queue, held by the consumer, or handed
\* to http_post, which is called at most once for it; and every get() that
\* returned a record is matched by one task_done(): the two counts differ
\* only while the consumer holds the record.
C40_EachRecordInOnePlace ==
    /\ \A id \in 1..q_added :
          TimesQueued(id) + (IF cs_rec.id = id THEN 1 ELSE 0) + TimesPosted(id) = 1
    /\ cs_owed = IF cs_rec = NoRecord THEN 0 ELSE 1

====
